---- MODULE Spec2Model ----
(***************************************************************************)
(* A model of the Contessa Coup engine: the turn-resolution engine         *)
(* (engine.rs), the player's belief estimator and decision rules           *)
(* (agent.rs, lib.rs) and the play loop with its turn cap.                 *)
(*                                                                         *)
(* Players are numbered 0..n-1 as in the code.  The deck is a sequence     *)
(* whose head is the code's deck[0] (the top) and whose tail end is the    *)
(* bottom.  A hand is a pair <<slot 0, slot 1>>.  A belief is the exact    *)
(* rational <<num, den>> of the floating point expression of               *)
(* compute_hands, or one of NaN, +inf, -inf; cutoffs are hundredths.       *)
(***************************************************************************)
EXTENDS Integers, Sequences, FiniteSets, TLC

VARIABLES
    deck,              \* Engine.deck
    hand,              \* players[i].hand
    coins,             \* players[i].coins
    killed,            \* Engine.killed (the kill ledger)
    active_player,     \* Engine.active_player
    liar_cutoff,       \* players[i].liar_cutoff, in hundredths
    lying_cutoff,      \* players[i].lying_cutoff, in hundredths
    perceived_hands,   \* players[i].perceived_hands
    option,            \* play(): the local `option`
    counter,           \* play(): the local `counter`
    cap,               \* play(): the number of turns at which it stops
    returned,          \* play(): the index of the player returned, NoPlayer
                       \* while it runs, Panicked when it panicked
    last,              \* what the latest call of turn() did
    call               \* a single call of a player's method, outside a game

vars == <<deck, hand, coins, killed, active_player, liar_cutoff, lying_cutoff,
          perceived_hands, option, counter, cap, returned, last, call>>

-----------------------------------------------------------------------------
(* Cards and actions (lib.rs)                                              *)

Duke == "Duke"
Captain == "Captain"
Ambassador == "Ambassador"
Assassin == "Assassin"
Contessa == "Contessa"
NoCard == "None"

RealCards == {Duke, Captain, Ambassador, Assassin, Contessa}
Card == RealCards \cup {NoCard}

NoPlayer == -1

Income == [kind |-> "Income", target |-> NoPlayer]
ForeignAid == [kind |-> "ForeignAid", target |-> NoPlayer]
Tax == [kind |-> "Tax", target |-> NoPlayer]
Exchange == [kind |-> "Exchange", target |-> NoPlayer]
Pass == [kind |-> "Pass", target |-> NoPlayer]
Coup(t) == [kind |-> "Coup", target |-> t]
Assassinate(t) == [kind |-> "Assassinate", target |-> t]
Steal(t) == [kind |-> "Steal", target |-> t]

\* The deck Engine::new builds before shuffling.
FullDeck ==
    <<Duke, Duke, Duke, Captain, Captain, Captain,
      Ambassador, Ambassador, Ambassador, Assassin, Assassin, Assassin,
      Contessa, Contessa, Contessa>>

CopiesPerCard == 3
DeckSize == 15

-----------------------------------------------------------------------------
(* Sequence helpers                                                        *)

RECURSIVE CountSeq(_, _)
CountSeq(s, c) ==
    IF s = <<>> THEN 0
    ELSE (IF Head(s) = c THEN 1 ELSE 0) + CountSeq(Tail(s), c)

Min(a, b) == IF a <= b THEN a ELSE b

Players == DOMAIN hand
NumPlayers == Cardinality(Players)

Contains(h, c) == h[1] = c \/ h[2] = c

IsEliminated(h) == h = <<NoCard, NoCard>>

\* replace that always writes the second slot
ReplaceSecond(h, current, new) == <<h[1], new>>

Replace(h, current, new) ==
    IF h[1] = current THEN <<new, h[2]>> ELSE <<h[1], new>>

-----------------------------------------------------------------------------
(* Coins (agent.rs / lib.rs: gain_coins, lose_coins)                       *)

CoinWidth == 256

\* coins is a u8; lose_coins returns <<amount actually lost, new balance>>.
LoseCoinsUnclamped(c, r) == [lost |-> r, coins |-> c - r]

LoseCoins(c, r) ==
    IF c >= r THEN [lost |-> r, coins |-> c - r]
    ELSE [lost |-> c, coins |-> 0]

\* a gain that credits twice the amount
GainCoinsTwice(c, g) ==
    [coins |-> (c + 2 * g) % CoinWidth, overflow |-> c + 2 * g >= CoinWidth]

\* self.coins += coins on a u8.  When the sum passes 255 (`overflow`) a build
\* with overflow checks (debug) panics with "attempt to add with overflow", and
\* a build without them (release) goes on with the wrapped sum `coins`.
GainCoins(c, g) ==
    [coins |-> (c + g) % CoinWidth, overflow |-> c + g >= CoinWidth]

-----------------------------------------------------------------------------
(* Influence (lose_influence); r is the outcome of random()                *)

\* the slot picked by random() alone, whatever the slots hold
LoseSlotRandom(h, r) == IF r THEN 2 ELSE 1

LoseSlot(h, r) ==
    IF h[1] = NoCard /\ h[2] # NoCard THEN 2
    ELSE IF h[2] = NoCard /\ h[1] # NoCard THEN 1
    ELSE IF r THEN 2
    ELSE 1

LoseInfluence(h, r) ==
    LET lost == LoseSlot(h, r)
    IN  [card |-> h[lost], hand |-> [h EXCEPT ![lost] = NoCard]]

-----------------------------------------------------------------------------
(* Beliefs (compute_hands)                                                 *)

\* The values of the f64 expression that are not numbers of [0, 1]
NaN == <<0, 0>>
PosInf == <<1, 0>>
NegInf == <<-1, 0>>

\* 1.0 - ((N - k)/N) * (N - 1.0 - k)/(N - 1.0), evaluated left to right on
\* f64 with 0 <= k: the exact fraction <<num, den>> when no division is by
\* zero.  N = 0: (0 - k)/0 is -inf (NaN for k = 0), times the negative
\* -1 - k is +inf, over -1 is -inf, and 1 - (-inf) is +inf.  N = 1: the
\* product (1 - k) * (-k) is divided by 0: +inf when it is positive, NaN when
\* it is 0, and 1 - (+inf) is -inf.
Belief(N, k) ==
    IF N = 0 THEN (IF k > 0 THEN PosInf ELSE NaN)
    ELSE IF N = 1 THEN (IF (1 - k) * (0 - k) > 0 THEN NegInf ELSE NaN)
    ELSE <<N * (N - 1) - (N - k) * (N - 1 - k), N * (N - 1)>>

\* The f64 result is not always the double nearest to the exact fraction: for
\* N = 5, k = 1 it is 0.3999999999999999 (exactly 2/5) and for N = 10, k = 1
\* it is 0.19999999999999996 (exactly 1/5), each below the double of the
\* hundredth it equals.  For no other N of 2..15 and k of 0..3 does a
\* comparison with a cutoff of whole hundredths differ from that of the exact
\* values.
RoundsBelow(b) == b \in {<<8, 20>>, <<18, 90>>}

\* b < cut/100 and b > cut/100 on floats; a comparison with NaN is false,
\* -inf is below and +inf above every cutoff.
BeliefLess(b, cut) ==
    \/ b = NegInf
    \/ /\ b[2] > 0
       /\ \/ b[1] * 100 < cut * b[2]
          \/ RoundsBelow(b) /\ b[1] * 100 = cut * b[2]
BeliefGreater(b, cut) ==
    \/ b = PosInf
    \/ b[2] > 0 /\ b[1] * 100 > cut * b[2]
\* a > b for two beliefs
BeliefAbove(a, b) ==
    \/ a[2] > 0 /\ b[2] > 0 /\ a[1] * b[2] > b[1] * a[2]
    \/ a = PosInf /\ (b[2] > 0 \/ b = NegInf)
    \/ b = NegInf /\ a[2] > 0

\* `counts` after the kill ledger and the observer's own cards are removed, and
\* `available` (always 2 less than the public pool, whatever the hand holds).
PrivateCount(h, kl, c) ==
    CopiesPerCard - CountSeq(kl, c) - CountSeq(h, c)
PrivateAvailable(kl) == DeckSize - Len(kl) - 2
PublicCount(kl, c) == CopiesPerCard - CountSeq(kl, c)
PublicAvailable(kl) == DeckSize - Len(kl)

APriori(h, kl) ==
    [c \in RealCards |-> Belief(PrivateAvailable(kl), PrivateCount(h, kl, c))]
MyHand(kl) ==
    [c \in RealCards |-> Belief(PublicAvailable(kl), PublicCount(kl, c))]

\* compute_hands that stores the public-pool estimate at every index
ComputeHandsPublicOnly(h, id, opponents, kl) ==
    [i \in 0..opponents |-> MyHand(kl)]

\* The table stored in self.perceived_hands: one entry per index 0..=opponents.
ComputeHands(h, id, opponents, kl) ==
    [i \in 0..opponents |-> IF i = id THEN MyHand(kl) ELSE APriori(h, kl)]

-----------------------------------------------------------------------------
(* Decisions of a player (check_challenge, check_block, legal actions)     *)

\* check_challenge without the test of is_eliminated
CheckChallengeAnyHand(h, ph, liar, believed, card) ==
    IF card = NoCard THEN FALSE
    ELSE BeliefLess(ph[believed][card], liar)

CheckChallenge(h, ph, liar, believed, card) ==
    IF card = NoCard THEN FALSE
    ELSE IF IsEliminated(h) THEN FALSE
    ELSE BeliefLess(ph[believed][card], liar)

\* check_block that answers a Steal aimed at any player
CheckBlockAnyTarget(h, ph, lying, id, action) ==
    IF IsEliminated(h) THEN <<FALSE, NoCard>>
    ELSE IF action.kind = "ForeignAid"
        THEN <<BeliefGreater(ph[id][Duke], lying), Duke>>
    ELSE IF action.kind = "Assassinate"
        THEN <<action.target = id /\ BeliefGreater(ph[id][Contessa], lying), Duke>>
    ELSE IF action.kind = "Steal"
        THEN IF BeliefAbove(ph[id][Captain], ph[id][Ambassador])
             THEN <<BeliefGreater(ph[id][Captain], lying), Captain>>
             ELSE <<BeliefGreater(ph[id][Ambassador], lying), Ambassador>>
    ELSE <<FALSE, NoCard>>

\* <<blocks?, blocking card>>
CheckBlock(h, ph, lying, id, action) ==
    IF IsEliminated(h) THEN <<FALSE, NoCard>>
    ELSE IF action.kind = "ForeignAid"
        THEN <<BeliefGreater(ph[id][Duke], lying), Duke>>
    ELSE IF action.kind = "Assassinate"
        THEN <<action.target = id /\ BeliefGreater(ph[id][Contessa], lying), Duke>>
    ELSE IF action.kind = "Steal"
        THEN IF action.target # id THEN <<FALSE, NoCard>>
             ELSE IF BeliefAbove(ph[id][Captain], ph[id][Ambassador])
                 THEN <<BeliefGreater(ph[id][Captain], lying), Captain>>
                 ELSE <<BeliefGreater(ph[id][Ambassador], lying), Ambassador>>
    ELSE <<FALSE, NoCard>>

IdxSeq(opponents) == [i \in 1..(opponents + 1) |-> i - 1]

\* the rivals of id, eliminated or not
TargetsAnyRival(id, opponents, elim) ==
    SelectSeq(IdxSeq(opponents), LAMBDA i : i # id)

\* for i in 0..=opponents, i != id and i not eliminated, in ascending order
Targets(id, opponents, elim) ==
    SelectSeq(IdxSeq(opponents), LAMBDA i : i # id /\ i \notin elim)

Coups(ts) == [i \in DOMAIN ts |-> Coup(ts[i])]
Steals(ts) == [i \in DOMAIN ts |-> Steal(ts[i])]
Assassinates(ts) == [i \in DOMAIN ts |-> Assassinate(ts[i])]

\* an enumeration whose bluffed actions are added whether or not the card is held
GetAvailableActionsDoubled(h, c, ph, lying, id, opponents, elim) ==
    LET ts == Targets(id, opponents, elim)
        self == ph[id]
    IN  IF IsEliminated(h) THEN <<Pass>>
        ELSE IF c >= 10 THEN Coups(ts)
        ELSE <<Income, ForeignAid>>
             \o (IF c >= 7 THEN Coups(ts) ELSE <<>>)
             \o (IF Contains(h, Duke) THEN <<Tax>> ELSE <<>>)
             \o (IF Contains(h, Captain) THEN Steals(ts) ELSE <<>>)
             \o (IF Contains(h, Ambassador) THEN <<Exchange>> ELSE <<>>)
             \o (IF Contains(h, Assassin) /\ c >= 3 THEN Assassinates(ts) ELSE <<>>)
             \o (IF BeliefGreater(self[Duke], lying) THEN <<Tax>> ELSE <<>>)
             \o (IF BeliefGreater(self[Captain], lying) THEN Steals(ts) ELSE <<>>)
             \o (IF BeliefGreater(self[Ambassador], lying) THEN <<Exchange>> ELSE <<>>)
             \o (IF BeliefGreater(self[Assassin], lying) /\ c >= 3
                 THEN Assassinates(ts) ELSE <<>>)

GetAvailableActions(h, c, ph, lying, id, opponents, elim) ==
    LET ts == Targets(id, opponents, elim)
        self == ph[id]
    IN  IF IsEliminated(h) THEN <<Pass>>
        ELSE IF c >= 10 THEN Coups(ts)
        ELSE <<Income, ForeignAid>>
             \o (IF c >= 7 THEN Coups(ts) ELSE <<>>)
             \o (IF Contains(h, Duke) THEN <<Tax>> ELSE <<>>)
             \o (IF Contains(h, Captain) THEN Steals(ts) ELSE <<>>)
             \o (IF Contains(h, Ambassador) THEN <<Exchange>> ELSE <<>>)
             \o (IF Contains(h, Assassin) /\ c >= 3 THEN Assassinates(ts) ELSE <<>>)
             \o (IF ~Contains(h, Duke) /\ BeliefGreater(self[Duke], lying)
                 THEN <<Tax>> ELSE <<>>)
             \o (IF ~Contains(h, Captain) /\ BeliefGreater(self[Captain], lying)
                 THEN Steals(ts) ELSE <<>>)
             \o (IF ~Contains(h, Ambassador) /\ BeliefGreater(self[Ambassador], lying)
                 THEN <<Exchange>> ELSE <<>>)
             \o (IF ~Contains(h, Assassin) /\ BeliefGreater(self[Assassin], lying)
                    /\ c >= 3
                 THEN Assassinates(ts) ELSE <<>>)

\* The actions select_action can return: an element of the enumerated list
\* (lib.rs draws one at random, the agent takes one of maximal utility), or
\* Pass when the list is empty (agent.rs).
SelectAction(actions) ==
    IF actions = <<>> THEN {Pass} ELSE {actions[i] : i \in DOMAIN actions}

\* The weight of an action in the utility table (Pass has none)
UtilityOf(util, action) ==
    CASE action.kind = "Income" -> util.income
      [] action.kind = "ForeignAid" -> util.foreignaid
      [] action.kind = "Coup" -> util.coup
      [] action.kind = "Tax" -> util.tax
      [] action.kind = "Assassinate" -> util.assassinate
      [] action.kind = "Exchange" -> util.exchange
      [] action.kind = "Steal" -> util.steal
      [] OTHER -> 0

\* compute_utility that discounts a Steal for the target's Captain only
ComputeUtilityCaptainOnly(util, ph, liar, id, action) ==
    IF action.kind = "ForeignAid"
    THEN IF \E i \in DOMAIN ph : i # id /\ BeliefGreater(ph[i][Duke], liar)
         THEN 0 ELSE UtilityOf(util, action)
    ELSE IF action.kind = "Steal"
    THEN IF BeliefGreater(ph[action.target][Captain], liar)
         THEN 0 ELSE UtilityOf(util, action)
    ELSE UtilityOf(util, action)

\* compute_utility: the weight, set to 0 for a ForeignAid that some other
\* player is believed to block with Duke and for a Steal whose target is
\* believed to hold Captain or Ambassador.
ComputeUtility(util, ph, liar, id, action) ==
    IF action.kind = "ForeignAid"
    THEN IF \E i \in DOMAIN ph : i # id /\ BeliefGreater(ph[i][Duke], liar)
         THEN 0 ELSE UtilityOf(util, action)
    ELSE IF action.kind = "Steal"
    THEN IF \/ BeliefGreater(ph[action.target][Captain], liar)
            \/ BeliefGreater(ph[action.target][Ambassador], liar)
         THEN 0 ELSE UtilityOf(util, action)
    ELSE UtilityOf(util, action)

\* an insertion that puts x before the entries of equal utility
InsertDescBefore(sorted, x) ==
    LET k == Cardinality({i \in DOMAIN sorted : sorted[i][2] > x[2]})
    IN  SubSeq(sorted, 1, k) \o <<x>> \o SubSeq(sorted, k + 1, Len(sorted))

\* utilities.sort_by(|a, b| b.1.partial_cmp(&a.1)): a stable sort by
\* descending utility, here by insertion.  x, which came after every entry of
\* `sorted` in the list, goes behind the entries whose utility is not less.
InsertDesc(sorted, x) ==
    LET k == Cardinality({i \in DOMAIN sorted : sorted[i][2] >= x[2]})
    IN  SubSeq(sorted, 1, k) \o <<x>> \o SubSeq(sorted, k + 1, Len(sorted))

RECURSIVE SortByUtility(_)
SortByUtility(us) ==
    IF us = <<>> THEN <<>>
    ELSE InsertDesc(SortByUtility(SubSeq(us, 1, Len(us) - 1)), us[Len(us)])

\* Agent::select_action: the enumerated actions paired with their utilities,
\* sorted, and the first of them; Pass when there is none.
AgentUtilities(actions, util, ph, liar, id) ==
    [i \in DOMAIN actions |-> <<actions[i], ComputeUtility(util, ph, liar, id, actions[i])>>]

AgentSelectAction(actions, util, ph, liar, id) ==
    LET sorted == SortByUtility(AgentUtilities(actions, util, ph, liar, id))
    IN  IF sorted = <<>> THEN Pass ELSE sorted[1][1]

\* Player::select_action of lib.rs: `*actions.choose(..).unwrap()`, which
\* panics on the empty list.
Panic == [kind |-> "panic", target |-> NoPlayer]
\* The value of `returned` when play() panicked instead of returning
Panicked == -2
PlayerSelectAction(actions) ==
    IF actions = <<>> THEN {Panic} ELSE {actions[i] : i \in DOMAIN actions}

\* a card map in which ForeignAid claims Duke
ClaimedCardAidDuke(action) ==
    CASE action.kind = "Tax" -> Duke
      [] action.kind = "ForeignAid" -> Duke
      [] action.kind = "Assassinate" -> Assassin
      [] action.kind = "Exchange" -> Ambassador
      [] action.kind = "Steal" -> Captain
      [] OTHER -> NoCard

\* The card an action claims (engine.rs, turn).
ClaimedCard(action) ==
    CASE action.kind = "Tax" -> Duke
      [] action.kind = "Assassinate" -> Assassin
      [] action.kind = "Exchange" -> Ambassador
      [] action.kind = "Steal" -> Captain
      [] OTHER -> NoCard

-----------------------------------------------------------------------------
(* The engine (engine.rs).  A game state st is a record                    *)
(* [deck, hand, coins, killed]; the steps of turn() map one to the next.   *)

Game == [deck |-> deck, hand |-> hand, coins |-> coins, killed |-> killed]

\* the last player of S in index order, not the first
LastOf(S) == IF S = {} THEN NoPlayer ELSE CHOOSE i \in S : \A j \in S : i >= j

FirstOf(S) == IF S = {} THEN NoPlayer ELSE CHOOSE i \in S : \A j \in S : i <= j

\* check_challenges: the first player, in index order, other than
\* acting_player who challenges and is not eliminated.  Each player is asked
\* about self.active_player (`believed`).
CheckChallenges(hs, phs, acting_player, believed, card) ==
    FirstOf({i \in DOMAIN hs :
                /\ i # acting_player
                /\ CheckChallenge(hs[i], phs[i], liar_cutoff[i], believed, card)
                /\ ~IsEliminated(hs[i])})

\* check_blocks: <<first blocker or NoPlayer, its blocking card>>
CheckBlocks(hs, phs, active, action) ==
    LET i == FirstOf({j \in DOMAIN hs :
                        /\ j # active
                        /\ CheckBlock(hs[j], phs[j], lying_cutoff[j], j, action)[1]
                        /\ ~IsEliminated(hs[j])})
    IN  IF i = NoPlayer THEN <<NoPlayer, NoCard>>
        ELSE <<i, CheckBlock(hs[i], phs[i], lying_cutoff[i], i, action)[2]>>

\* The players on which check_blocks invokes check_block: the loop calls it
\* on every player in index order, the active player and the eliminated ones
\* too, until the first one that blocks.
CheckBlocksAsked(hs, phs, active, action) ==
    LET i == CheckBlocks(hs, phs, active, action)[1]
    IN  IF i = NoPlayer THEN DOMAIN hs ELSE {j \in DOMAIN hs : j <= i}

\* an influence loss that is not entered in the kill ledger
KillInfluenceUnrecorded(st, p, r) ==
    [st EXCEPT !.hand[p] = LoseInfluence(st.hand[p], r).hand]

\* an influence loss that resets the kill ledger to the card just lost
KillInfluenceReset(st, p, r) ==
    LET li == LoseInfluence(st.hand[p], r)
    IN  [st EXCEPT !.hand[p] = li.hand,
                   !.killed = IF li.card # NoCard THEN <<li.card>> ELSE @]

\* an influence loss that enters the sentinel of an eliminated player too
KillInfluenceSentinel(st, p, r) ==
    LET li == LoseInfluence(st.hand[p], r)
    IN  [st EXCEPT !.hand[p] = li.hand, !.killed = Append(@, li.card)]

\* players[p].lose_influence(); the card goes to the kill ledger unless it is
\* the sentinel.
KillInfluence(st, p, r) ==
    LET li == LoseInfluence(st.hand[p], r)
    IN  [st EXCEPT !.hand[p] = li.hand,
                   !.killed = IF li.card # NoCard THEN Append(@, li.card) ELSE @]

\* SwapCard without the drain of the drawn card
SwapCardNoDrain(st, p, card) ==
    LET d == Append(st.deck, card)
    IN  [st EXCEPT !.hand[p] = Replace(@, card, Head(d)), !.deck = d]

\* a swap that draws the top card without returning the revealed one
SwapCardNoPush(st, p, card) ==
    [st EXCEPT !.hand[p] = Replace(@, card, Head(st.deck)), !.deck = Tail(st.deck)]

\* deck.push(card); players[p].replace(card, deck[0]); deck.drain(0..1)
SwapCard(st, p, card) ==
    LET d == Append(st.deck, card)
    IN  [st EXCEPT !.hand[p] = Replace(@, card, Head(d)), !.deck = Tail(d)]

\* a challenge phase in which a failed claim costs the influence but does not
\* prevent the action
ChallengePhaseNotPrevented(st, active, card, challenger, r) ==
    IF challenger = NoPlayer THEN [st |-> st, prevented |-> FALSE]
    ELSE IF Contains(st.hand[active], card)
        THEN [st |-> SwapCard(KillInfluence(st, challenger, r), active, card),
              prevented |-> FALSE]
        ELSE [st |-> KillInfluence(st, active, r), prevented |-> FALSE]

\* a challenge phase in which a failed claim costs the challenger an influence
\* as well
ChallengePhaseBothLose(st, active, card, challenger, r) ==
    IF challenger = NoPlayer THEN [st |-> st, prevented |-> FALSE]
    ELSE IF Contains(st.hand[active], card)
        THEN [st |-> SwapCard(KillInfluence(st, challenger, r), active, card),
              prevented |-> FALSE]
        ELSE [st |-> KillInfluence(KillInfluence(st, active, r), challenger, r),
              prevented |-> TRUE]

\* The challenge of the active player's claim.
ChallengePhase(st, active, card, challenger, r) ==
    IF challenger = NoPlayer THEN [st |-> st, prevented |-> FALSE]
    ELSE IF Contains(st.hand[active], card)
        THEN [st |-> SwapCard(KillInfluence(st, challenger, r), active, card),
              prevented |-> FALSE]
        ELSE [st |-> KillInfluence(st, active, r), prevented |-> TRUE]

\* a block phase in which a block shown to be a bluff still prevents the action
BlockPhaseBluffStands(st, i, card, j, r) ==
    IF j = NoPlayer THEN [st |-> st, prevented |-> TRUE]
    ELSE IF Contains(st.hand[i], card)
        THEN [st |-> SwapCard(KillInfluence(st, j, r), i, card),
              prevented |-> TRUE]
        ELSE [st |-> KillInfluence(st, i, r), prevented |-> TRUE]

\* The block of player i with `card`, challenged by j (or by nobody).
BlockPhase(st, i, card, j, r) ==
    IF j = NoPlayer THEN [st |-> st, prevented |-> TRUE]
    ELSE IF Contains(st.hand[i], card)
        THEN [st |-> SwapCard(KillInfluence(st, j, r), i, card),
              prevented |-> TRUE]
        ELSE [st |-> KillInfluence(st, i, r), prevented |-> FALSE]

\* a steal that credits 2 coins whatever the target could pay
StealCoinsFixed(st, active, target) ==
    LET lc == LoseCoins(st.coins[target], 2)
        c1 == [st.coins EXCEPT ![target] = lc.coins]
    IN  [st EXCEPT !.coins = [c1 EXCEPT ![active] = GainCoins(@, 2).coins]]

StealCoins(st, active, target) ==
    LET lc == LoseCoins(st.coins[target], 2)
        c1 == [st.coins EXCEPT ![target] = lc.coins]
    IN  [st EXCEPT !.coins = [c1 EXCEPT ![active] = GainCoins(@, lc.lost).coins]]

\* complete_action with the price of Assassinate charged for a Coup
CompleteActionCheapCoup(st, active, action, r) ==
    CASE action.kind = "Income" ->
            [st EXCEPT !.coins[active] = GainCoins(@, 1).coins]
      [] action.kind = "ForeignAid" ->
            [st EXCEPT !.coins[active] = GainCoins(@, 2).coins]
      [] action.kind = "Coup" ->
            KillInfluence([st EXCEPT !.coins[active] = LoseCoins(@, 3).coins],
                          action.target, r)
      [] action.kind = "Tax" ->
            [st EXCEPT !.coins[active] = GainCoins(@, 3).coins]
      [] action.kind = "Assassinate" ->
            KillInfluence([st EXCEPT !.coins[active] = LoseCoins(@, 3).coins],
                          action.target, r)
      [] action.kind = "Steal" -> StealCoins(st, active, action.target)
      [] OTHER -> st

\* complete_action with an Assassinate that is not paid for
CompleteActionFreeKill(st, active, action, r) ==
    CASE action.kind = "Income" ->
            [st EXCEPT !.coins[active] = GainCoins(@, 1).coins]
      [] action.kind = "ForeignAid" ->
            [st EXCEPT !.coins[active] = GainCoins(@, 2).coins]
      [] action.kind = "Coup" ->
            KillInfluence([st EXCEPT !.coins[active] = LoseCoins(@, 7).coins],
                          action.target, r)
      [] action.kind = "Tax" ->
            [st EXCEPT !.coins[active] = GainCoins(@, 3).coins]
      [] action.kind = "Assassinate" -> KillInfluence(st, action.target, r)
      [] action.kind = "Steal" -> StealCoins(st, active, action.target)
      [] OTHER -> st

CompleteAction(st, active, action, r) ==
    CASE action.kind = "Income" ->
            [st EXCEPT !.coins[active] = GainCoins(@, 1).coins]
      [] action.kind = "ForeignAid" ->
            [st EXCEPT !.coins[active] = GainCoins(@, 2).coins]
      [] action.kind = "Coup" ->
            KillInfluence([st EXCEPT !.coins[active] = LoseCoins(@, 7).coins],
                          action.target, r)
      [] action.kind = "Tax" ->
            [st EXCEPT !.coins[active] = GainCoins(@, 3).coins]
      [] action.kind = "Assassinate" ->
            KillInfluence([st EXCEPT !.coins[active] = LoseCoins(@, 3).coins],
                          action.target, r)
      [] action.kind = "Steal" -> StealCoins(st, active, action.target)
      [] OTHER -> st          \* Exchange and Pass

\* The game state when the addition of complete_action runs: a Steal has
\* taken the coins of its target by then.
BeforeGain(st, action) ==
    IF action.kind = "Steal"
    THEN [st EXCEPT !.coins[action.target] = LoseCoins(@, 2).coins]
    ELSE st

\* Whether an addition of complete_action passes 255 (see GainCoins).  A Steal
\* adds what lose_coins(2) took from the target to the balance the active
\* player has after that call.
CompleteActionOverflows(st, active, action) ==
    CASE action.kind = "Income" -> GainCoins(st.coins[active], 1).overflow
      [] action.kind = "ForeignAid" -> GainCoins(st.coins[active], 2).overflow
      [] action.kind = "Tax" -> GainCoins(st.coins[active], 3).overflow
      [] action.kind = "Steal" ->
            GainCoins(BeforeGain(st, action).coins[active],
                      LoseCoins(st.coins[action.target], 2).lost).overflow
      [] OTHER -> FALSE

\* a rotation that passes over a next player who is eliminated
RotateSkipEliminated(a, n) ==
    LET nxt == IF a + 1 = n THEN 0 ELSE a + 1
    IN  IF IsEliminated(hand[nxt]) THEN (IF nxt + 1 = n THEN 0 ELSE nxt + 1) ELSE nxt

RotateActivePlayer(a, n) == IF a + 1 = n THEN 0 ELSE a + 1

\* The value turn() returns, from the players eliminated when it began.
Winner(elim, n) ==
    IF Cardinality(elim) = n - 1 THEN FirstOf((0..(n - 1)) \ elim) ELSE NoPlayer

\* One call of turn() with the selected action and the outcomes r1, r2, r3 of
\* random() in the (at most three) lose_influence calls.
TurnOutcome(action, r1, r2, r3) ==
    LET n == NumPlayers
        phs == [p \in Players |-> ComputeHands(hand[p], p, n - 1, killed)]
        elim == {p \in Players : IsEliminated(hand[p])}
        card == ClaimedCard(action)
        challenger == CheckChallenges(hand, phs, active_player, active_player, card)
        held == challenger # NoPlayer /\ Contains(hand[active_player], card)
        c == ChallengePhase(Game, active_player, card, challenger, r1)
        block == CheckBlocks(c.st.hand, phs, active_player, action)
        blocked == ~c.prevented /\ block[1] # NoPlayer
        j == IF blocked
             THEN CheckChallenges(c.st.hand, phs, block[1], active_player, block[2])
             ELSE NoPlayer
        b == IF blocked THEN BlockPhase(c.st, block[1], block[2], j, r2) ELSE c
        final == IF b.prevented THEN b.st
                 ELSE CompleteAction(b.st, active_player, action, r3)
    IN  [st |-> final,
         phs |-> phs,
         result |-> Winner(elim, n),
         overflow |-> ~b.prevented
                      /\ CompleteActionOverflows(b.st, active_player, action),
         log |-> [active |-> active_player,
                  action |-> action,
                  card |-> card,
                  eliminated |-> elim,
                  challenger |-> challenger,
                  held |-> held,
                  blocker |-> IF blocked THEN block[1] ELSE NoPlayer,
                  block_card |-> IF blocked THEN block[2] ELSE NoCard,
                  block_asked |-> CheckBlocksAsked(c.st.hand, phs, active_player, action),
                  block_challenger |-> j,
                  block_held |-> j # NoPlayer /\ Contains(c.st.hand[block[1]], block[2]),
                  prevented |-> b.prevented,
                  after_challenge |-> c.st,
                  after_block |-> b.st,
                  coins_before |-> coins,
                  hand_before |-> hand,
                  killed_before |-> killed,
                  result |-> Winner(elim, n)]]

\* select_action of the active player (Player::select_action of lib.rs, the
\* player type of engine.rs), on the beliefs turn() just refreshed
ActiveChoices ==
    LET n == NumPlayers
        a == active_player
        elim == {p \in Players : IsEliminated(hand[p])}
        ph == ComputeHands(hand[a], a, n - 1, killed)
    IN  PlayerSelectAction(GetAvailableActions(hand[a], coins[a], ph,
                                               lying_cutoff[a], a, n - 1, elim))

-----------------------------------------------------------------------------
(* Construction (Engine::new) and the initial states                       *)

NoTurn ==
    [active |-> NoPlayer, action |-> [kind |-> "None", target |-> NoPlayer],
     card |-> NoCard, eliminated |-> {}, challenger |-> NoPlayer, held |-> FALSE,
     blocker |-> NoPlayer, block_card |-> NoCard, block_asked |-> {},
     block_challenger |-> NoPlayer,
     block_held |-> FALSE, prevented |-> FALSE,
     after_challenge |-> [deck |-> <<>>, hand |-> <<>>, coins |-> <<>>, killed |-> <<>>],
     after_block |-> [deck |-> <<>>, hand |-> <<>>, coins |-> <<>>, killed |-> <<>>],
     coins_before |-> <<>>, hand_before |-> <<>>, killed_before |-> <<>>,
     result |-> NoPlayer]

\* Engine::new on n players (ids 0..n-1, 2 coins each, opponents = n - 1) and
\* the shuffled deck: player i is dealt deck[2i], deck[2i+1].
EngineNew(shuffled, n, liar, lying) ==
    LET hs == [i \in 0..(n - 1) |-> <<shuffled[2 * i + 1], shuffled[2 * i + 2]>>]
    IN  /\ deck = SubSeq(shuffled, 2 * n + 1, Len(shuffled))
        /\ hand = hs
        /\ coins = [i \in 0..(n - 1) |-> 2]
        /\ killed = <<>>
        /\ active_player = 0
        /\ liar_cutoff = liar
        /\ lying_cutoff = lying
        /\ perceived_hands = [i \in 0..(n - 1) |-> ComputeHands(hs[i], i, n - 1, <<>>)]
        /\ option = NoPlayer
        /\ counter = 0
        /\ returned = NoPlayer
        /\ last = NoTurn

\* s[1..n] as a function on 0..n-1 (the players' indices)
Indexed(s) == [i \in 0..(Len(s) - 1) |-> s[i + 1]]

\* Outcomes of deck.shuffle the model starts from.
ShuffleA ==
    <<Duke, Captain, Duke, Assassin, Contessa, Ambassador, Captain, Duke,
      Assassin, Contessa, Ambassador, Captain, Assassin, Contessa, Ambassador>>
ShuffleC ==
    <<Duke, Duke, Contessa, Captain, Ambassador, Assassin, Captain, Duke,
      Assassin, Contessa, Ambassador, Captain, Assassin, Contessa, Ambassador>>
ShuffleB ==
    <<Contessa, Ambassador, Duke, Captain, Assassin, Duke, Captain, Contessa,
      Assassin, Duke, Ambassador, Captain, Assassin, Contessa, Ambassador>>

\* The games the model plays: a shuffle and the players' cutoffs in hundredths
\* (liar_cutoff, lying_cutoff; one entry per player).  A player with
\* liar_cutoff 0 never challenges; with 30 it challenges a claim of a card it
\* holds a copy of; with 40 it also challenges a block of its own action; with
\* 45 it challenges every claim while no card is dead.  A
\* player with lying_cutoff 20 bluffs and blocks, one with 50 does not while
\* few cards are dead.
Configs ==
    { [shuffled |-> ShuffleA, liar |-> <<0, 0>>, lying |-> <<50, 50>>],
      [shuffled |-> ShuffleA, liar |-> <<30, 30>>, lying |-> <<50, 20>>],
      [shuffled |-> ShuffleB, liar |-> <<40, 30>>, lying |-> <<20, 20>>],
      [shuffled |-> ShuffleC, liar |-> <<0, 45>>, lying |-> <<50, 20>>],
      [shuffled |-> ShuffleB, liar |-> <<0, 40, 30>>, lying |-> <<20, 50, 20>>],
      [shuffled |-> ShuffleA, liar |-> <<30, 0, 30, 40>>, lying |-> <<50, 20, 50, 20>>] }

\* The cap of play() on the number of turns.  The code's cap is 1000
\* (engine.rs, play); the model plays its games under a smaller one, held in
\* `cap`.
TurnCap == 5

NoCall == [fn |-> "none"]

Init ==
    /\ \E cfg \in Configs :
          EngineNew(cfg.shuffled, Len(cfg.liar), Indexed(cfg.liar), Indexed(cfg.lying))
    /\ cap = TurnCap
    /\ call = NoCall

-----------------------------------------------------------------------------
(* The play loop (Engine::play)                                            *)

\* play() after a turn: `if counter == 1000 { return self.players[0] }`
CapReturn(c) == IF c = cap THEN 0 ELSE NoPlayer

\* The outcomes of random() that matter to an action: the challenge of its
\* claim, the challenge of its block, its execution.
RandomOutcomes(action) ==
    (IF ClaimedCard(action) # NoCard THEN BOOLEAN ELSE {FALSE})
    \X (IF action.kind \in {"ForeignAid", "Assassinate", "Steal"} THEN BOOLEAN ELSE {FALSE})
    \X (IF action.kind \in {"Coup", "Assassinate"} THEN BOOLEAN ELSE {FALSE})

\* play() does not return: turn() panicked, leaving the engine with the game
\* state st and the tables phs it had reached; option, counter and the log of
\* the latest turn that returned are as they were.
TurnPanics(st, phs) ==
    /\ returned' = Panicked
    /\ deck' = st.deck
    /\ hand' = st.hand
    /\ coins' = st.coins
    /\ killed' = st.killed
    /\ perceived_hands' = phs
    /\ UNCHANGED <<active_player, liar_cutoff, lying_cutoff, option, counter, cap,
                   last, call>>

\* The tables turn() stores before it asks for an action: compute_hands of
\* every player on the kill ledger
RefreshedHands ==
    [p \in Players |-> ComputeHands(hand[p], p, NumPlayers - 1, killed)]

\* One iteration that calls turn(): option is None; afterwards the counter is
\* compared with the cap.  turn() panics when select_action does (the tables
\* are refreshed by then), and, in a build with overflow checks, when an
\* addition of coins overflows in complete_action (the challenge and the block
\* are resolved by then).
PlayTurn ==
    /\ returned = NoPlayer
    /\ option = NoPlayer
    /\ IF ActiveChoices = {Panic} THEN TurnPanics(Game, RefreshedHands)
       ELSE \E action \in ActiveChoices :
            \E r \in RandomOutcomes(action) :
             \E o \in {TurnOutcome(action, r[1], r[2], r[3])} :
                 \E panics \in (IF o.overflow THEN BOOLEAN ELSE {FALSE}) :
                  IF panics THEN TurnPanics(BeforeGain(o.log.after_block, action), o.phs)
                  ELSE /\ deck' = o.st.deck
                       /\ hand' = o.st.hand
                       /\ coins' = o.st.coins
                       /\ killed' = o.st.killed
                       /\ active_player' = RotateActivePlayer(active_player, NumPlayers)
                       /\ perceived_hands' = o.phs
                       /\ option' = o.result
                       /\ counter' = counter + 1
                       /\ returned' = CapReturn(counter + 1)
                       /\ last' = o.log
                       /\ UNCHANGED <<liar_cutoff, lying_cutoff, cap, call>>

\* One iteration that finds option = Some(player) and returns that player.
PlayReturn ==
    /\ returned = NoPlayer
    /\ option # NoPlayer
    /\ returned' = option
    /\ UNCHANGED <<deck, hand, coins, killed, active_player, liar_cutoff,
                   lying_cutoff, perceived_hands, option, counter, cap, last, call>>

Next == PlayTurn \/ PlayReturn

Spec == Init /\ [][Next]_vars

\* A longer game of two players: player 0 holds both Dukes it was dealt and
\* challenges what it doubts, player 1 bluffs and never challenges.
DuelCap == 7

InitDuel ==
    /\ EngineNew(ShuffleC, 2, Indexed(<<45, 0>>), Indexed(<<50, 20>>))
    /\ cap = DuelCap
    /\ call = NoCall

SpecDuel == InitDuel /\ [][Next]_vars

\* A game of three players in which one Assassinate can take three
\* influences: player 0 holds an Assassin and never challenges, players 1 and
\* 2 challenge what they doubt and bluff their blocks, and player 2 holds no
\* Duke.
ShuffleT ==
    <<Assassin, Captain, Contessa, Ambassador, Captain, Contessa, Duke, Duke,
      Ambassador, Assassin, Duke, Captain, Assassin, Contessa, Ambassador>>

TrioCap == 4

InitTrio ==
    /\ EngineNew(ShuffleT, 3, Indexed(<<0, 45, 45>>), Indexed(<<50, 20, 20>>))
    /\ cap = TrioCap
    /\ call = NoCall

\* The games of Spec and the game of three players
InitWide == Init \/ InitTrio

SpecWide == InitWide /\ [][Next]_vars

-----------------------------------------------------------------------------
(* Single calls of a player's methods, on arguments drawn from bounded     *)
(* sets.  The engine's variables keep the values of a new two-player game. *)

MaxCoins == 12
MaxAmount == 8

game_vars == <<deck, hand, coins, killed, active_player, liar_cutoff, lying_cutoff,
               perceived_hands, option, counter, cap, returned, last>>

\* Engine::new deals deck[2i], deck[2i+1] to player i from the 15 cards: it
\* seats at most 7 players (the index is out of bounds for an eighth).
MaxPlayers == DeckSize \div 2

\* Engine::new on n players: whether it returns an engine, and how many
\* players have been dealt a hand when it returns or panics.  The deal loop
\* reads deck[2i] and deck[2i+1] for i = 0, 1, ..: the first index out of
\* bounds is that of player MaxPlayers.
EngineNewOutcome(n) ==
    IF n > MaxPlayers THEN [ok |-> FALSE, dealt |-> MaxPlayers]
    ELSE [ok |-> TRUE, dealt |-> n]

\* The largest number of players handed to Engine::new
MaxSeats == 9

\* Games of every number of players Engine::new deals to, 1..MaxPlayers, from
\* one shuffle: every player challenges what it doubts and bluffs.
SeatsCap == 2

InitSeats ==
    /\ \E n \in 1..MaxPlayers :
          EngineNew(ShuffleA, n, [i \in 0..(n - 1) |-> 45], [i \in 0..(n - 1) |-> 20])
    /\ cap = SeatsCap
    /\ call = NoCall

SpecSeats == InitSeats /\ [][Next]_vars

\* The cards at the positions `dead` of the shuffled deck, in deck order
RECURSIVE CardsAt(_, _, _)
CardsAt(shuffled, dead, p) ==
    IF p > Len(shuffled) THEN <<>>
    ELSE (IF p \in dead THEN <<shuffled[p]>> ELSE <<>>) \o CardsAt(shuffled, dead, p + 1)

\* The arguments of the compute_hands calls that turn() makes once a game of n
\* players is down to its last player s (the turn that signals the winner
\* starts in this state): s holds `keep` of the cards it was dealt, every
\* other player's slots are sentinels and their cards are in the kill ledger.
\* The observer o is any of the n players.
EndgameCall(sh, n, s, o, keep) ==
    [fn |-> "compute_hands", done |-> FALSE, id |-> o, opponents |-> n - 1,
     hand |-> IF o # s THEN <<NoCard, NoCard>>
              ELSE IF keep = 2 THEN <<sh[2 * s + 1], sh[2 * s + 2]>>
              ELSE <<NoCard, sh[2 * s + 2]>>,
     killed |-> CardsAt(sh, (1..(2 * n)) \ (IF keep = 2 THEN {2 * s + 1, 2 * s + 2}
                                              ELSE {2 * s + 2}), 1),
     table |-> <<>>]

EndgameCalls ==
    UNION { { EndgameCall(sh, n, s, o, keep) :
                sh \in {ShuffleA, ShuffleB, ShuffleC}, s \in 0..(n - 1),
                o \in 0..(n - 1), keep \in {1, 2} } :
            n \in 2..MaxPlayers }

\* A player as the decision methods see it, in a four-player game: its hand,
\* its index and the tables compute_hands stored for it on a kill ledger.
SeatedHands == {<<Duke, Captain>>, <<Contessa, Ambassador>>, <<NoCard, Assassin>>,
                <<Captain, NoCard>>, <<NoCard, NoCard>>}
Ledgers == {<<>>, <<Duke>>, <<Ambassador, Duke, Duke>>}
Cutoffs == {0, 20, 30, 38, 45, 100}
SeatedOn(kl) ==
    { [hand |-> h, id |-> i, opponents |-> 3, killed |-> kl,
       table |-> ComputeHands(h, i, 3, kl)] :
      h \in SeatedHands, i \in {0, 2} }
Seated == UNION {SeatedOn(kl) : kl \in Ledgers}

CheckChallengeCalls ==
    { [fn |-> "check_challenge", done |-> FALSE, self |-> me, liar |-> cut,
       active |-> a, card |-> c, result |-> FALSE] :
      me \in Seated, cut \in Cutoffs, a \in 0..3, c \in Card }

\* Every action a player can be asked to block, in a four-player game
AllActions ==
    {Income, ForeignAid, Tax, Exchange, Pass}
    \cup {Coup(t) : t \in 0..3} \cup {Assassinate(t) : t \in 0..3}
    \cup {Steal(t) : t \in 0..3}

CheckBlockCalls ==
    { [fn |-> "check_block", done |-> FALSE, self |-> me, lying |-> cut,
       action |-> a, result |-> <<FALSE, NoCard>>] :
      me \in Seated, cut \in Cutoffs, a \in AllActions }

\* select_action of the agent ("Agent") and of lib.rs ("Player"), for a
\* player with no opponent eliminated or with every opponent eliminated
SelectActionCall(im, me, c, cut, others) ==
    LET el == others \cup (IF IsEliminated(me.hand) THEN {me.id} ELSE {})
    IN  [fn |-> "select_action", done |-> FALSE, impl |-> im, self |-> me,
         coins |-> c, lying |-> cut, eliminated |-> el,
         actions |-> GetAvailableActions(me.hand, c, me.table, cut, me.id,
                                         me.opponents, el),
         result |-> Pass]

\* The opponents eliminated, with a kill ledger that holds their cards
Tables ==
    { [others |-> {}, killed |-> <<>>],
      [others |-> {}, killed |-> <<Ambassador, Duke, Duke>>],
      [others |-> {1, 3}, killed |-> <<Ambassador, Duke, Duke, Contessa>>],
      [others |-> 0..3, killed |-> <<Ambassador, Duke, Duke, Contessa, Captain, Assassin>>] }

SelectActionCalls ==
    UNION { { SelectActionCall(im, me, c, cut, t.others \ {me.id}) :
                im \in {"Agent", "Player"}, me \in SeatedOn(t.killed),
                c \in {2, 3, 7, 10}, cut \in Cutoffs } :
            t \in Tables }

\* mutate().  random::<f64>() is one of 0/MutateSteps .. (MutateSteps-1)/
\* MutateSteps, given by its numerator r.  A cutoff is counted in units of
\* 0.01/MutateSteps, so that 0.01 is MutateSteps units; a utility weight in
\* units of 0.1/MutateSteps, so that 0.1 is MutateSteps units.
MutateSteps == 4

\* a mutation of twice the width
MutateCutoffWide(c, r) == c + 2 * (2 * r - MutateSteps)

\* cutoff + 0.01 * (2.0 * random() - 1.0)
MutateCutoff(c, r) == c + (2 * r - MutateSteps)

UtilityKinds ==
    <<"income", "foreignaid", "coup", "tax", "assassinate", "exchange", "steal">>

\* ActionUtilities::mutate: every weight grows by 0.1 * random()
MutateUtilities(us, rs) == [k \in DOMAIN us |-> us[k] + rs[k]]

\* Agent::mutate on the parent's cutoffs and weights
Mutate(parent, r1, r2, rs) ==
    [liar |-> MutateCutoff(parent.liar, r1),
     lying |-> MutateCutoff(parent.lying, r2),
     utilities |-> MutateUtilities(parent.utilities, rs)]

\* Parents: cutoffs 0.50/0.50 and 0.00/1.00, in units
Parents ==
    { [liar |-> 50 * MutateSteps, lying |-> 50 * MutateSteps,
       utilities |-> [k \in DOMAIN UtilityKinds |-> 0]],
      [liar |-> 0, lying |-> 100 * MutateSteps,
       utilities |-> [k \in DOMAIN UtilityKinds |-> 10 * k]] }

\* The seven draws of random() for the weights
UtilityDraws ==
    { [k \in DOMAIN UtilityKinds |-> (a + b * k) % MutateSteps] :
      a \in 0..(MutateSteps - 1), b \in 0..(MutateSteps - 1) }

\* Utility tables: weights close to one another (main.rs:24-32, in hundredths,
\* which keeps them apart and in their order), all equal, ForeignAid and Steal
\* on top, and all negative.
UtilityTables ==
    { [income |-> 19536, foreignaid |-> 19919, coup |-> 19853, tax |-> 19880,
       assassinate |-> 19614, exchange |-> 20181, steal |-> 20213],
      [income |-> 100, foreignaid |-> 100, coup |-> 100, tax |-> 100,
       assassinate |-> 100, exchange |-> 100, steal |-> 100],
      [income |-> 10, foreignaid |-> 90, coup |-> 40, tax |-> 30,
       assassinate |-> 40, exchange |-> 20, steal |-> 90],
      [income |-> -5, foreignaid |-> -3, coup |-> -5, tax |-> -4,
       assassinate |-> -5, exchange |-> -4, steal |-> -3] }

\* Agent::select_action with a utility table
AgentSelectCalls ==
    UNION { { [fn |-> "agent_select", done |-> FALSE, self |-> me, coins |-> c,
               lying |-> ly, liar |-> li, util |-> u,
               eliminated |-> (t.others \ {me.id})
                                \cup (IF IsEliminated(me.hand) THEN {me.id} ELSE {}),
               actions |-> <<>>, utilities |-> <<>>, result |-> Pass] :
                me \in SeatedOn(t.killed), c \in {2, 3, 7, 10}, ly \in {20, 50},
                li \in Cutoffs, u \in UtilityTables } :
            t \in Tables }

ComputeUtilityCalls ==
    { [fn |-> "compute_utility", done |-> FALSE, self |-> me, liar |-> li,
       util |-> u, action |-> a, result |-> 0] :
      me \in Seated, li \in Cutoffs, u \in UtilityTables, a \in AllActions }

\* An agent: the fields of struct Agent
NewAgent(id, opponents, params) ==
    [id |-> id, hand |-> <<NoCard, NoCard>>, coins |-> 2, liar |-> params.liar,
     lying |-> params.lying, utilities |-> params.utilities,
     opponents |-> opponents, perceived |-> <<>>]

\* Agent::get_metadata: PlayerMetadata::Computer { lying_cutoff, liar_cutoff,
\* utilities }
GetMetadata(agent) ==
    [liar |-> agent.liar, lying |-> agent.lying, utilities |-> agent.utilities]

\* Agent::from_metadata(id, opponents, metadata)
FromMetadata(id, opponents, metadata) == NewAgent(id, opponents, metadata)

\* Agent::mutate: the cutoffs and weights of Mutate, the id kept, the per-game
\* state fresh
AgentMutate(agent, r1, r2, rs) ==
    LET m == Mutate(GetMetadata(agent), r1, r2, rs)
    IN  [id |-> agent.id, hand |-> <<NoCard, NoCard>>, coins |-> 2, liar |-> m.liar,
         lying |-> m.lying, utilities |-> m.utilities,
         opponents |-> agent.opponents, perceived |-> <<>>]

\* with_id that leaves the id as it was
WithIdKept(agent, id) == agent

\* Agent::with_id: the same agent under another id
WithId(agent, id) == [agent EXCEPT !.id = id]

\* States in which a game of four leaves the player play() returns: its hand
\* and coins when play() returns, and the tables compute_hands stored for it
\* when the last turn began (engine.rs:160-165), on its hand and the kill
\* ledger of that moment.  A winner holds a card while the three others lost
\* theirs, and nothing changed its hand or the ledger in the turn that
\* signalled it.  Player 0 is also the player returned at the cap of turns:
\* here it lost its last card, a Duke, in the last turn, after the tables
\* were stored.
GameEnds(w) ==
    IF w = 0
    THEN { [hand |-> <<Duke, Duke>>, coins |-> 3,
            perceived |-> ComputeHands(<<Duke, Duke>>, 0, 3,
                             <<Captain, Contessa, Captain, Assassin, Ambassador,
                               Contessa>>)],
           [hand |-> <<NoCard, NoCard>>, coins |-> 2,
            perceived |-> ComputeHands(<<NoCard, Duke>>, 0, 3, <<Assassin>>)] }
    ELSE { [hand |-> <<Captain, Captain>>, coins |-> 0,
            perceived |-> ComputeHands(<<Captain, Captain>>, w, 3,
                             <<Duke, Contessa, Duke, Assassin, Ambassador,
                               Contessa>>)] }

\* A player as Engine::play returns it, `self.players[player].clone()`: the
\* hand and coins the game left it and the tables of the last turn; id,
\* opponents, cutoffs and weights as it was seated.
AfterGame(agent, end) ==
    [agent EXCEPT !.hand = end.hand, !.coins = end.coins,
                  !.perceived = end.perceived]

\* Engine::play of the engine train() is written for, which takes the
\* players as Vec<Box<dyn Player>> and returns a PlayerMetadata: the
\* winner's parameter set, its per-game state dropped.
EnginePlay(seats, w, end) == GetMetadata(AfterGame(seats[w], end))

\* Agent::clear: the per-game state as Agent::new leaves it; id, opponents,
\* cutoffs and weights stay
AgentClear(agent) ==
    [agent EXCEPT !.hand = <<NoCard, NoCard>>, !.coins = 2, !.perceived = <<>>]

\* Agent::set_id
SetId(agent, id) == [agent EXCEPT !.id = id]

\* Agent::exchange: the hand is kept and the cards drawn are handed back
AgentExchange(h, cards) == [hand |-> h, returned |-> cards]

\* deal of both implementations
Deal(h, dealt) == dealt

-----------------------------------------------------------------------------
(* The human player (human.rs).  What the user answers at a prompt is an    *)
(* input; a prompt that fails (ok = FALSE) reaches todo!(), a panic.        *)

\* Vec::remove at the position of the first element equal to v
RemoveFirst(s, v) ==
    LET i == CHOOSE k \in DOMAIN s : s[k] = v /\ \A j \in 1..(k - 1) : s[j] # v
    IN  SubSeq(s, 1, i - 1) \o SubSeq(s, i + 1, Len(s))

\* Human::exchange: the options are the hand followed by the cards drawn;
\* the user ticks the positions `picks`, and MultiSelect answers with the
\* ticked options in the order of the list.  Any number other than two is a
\* panic.  The two retained become the hand, and the options with the first
\* occurrence of each removed are handed back.
HumanExchange(h, cards, ok, picks) ==
    LET options == h \o cards
    IN  IF ~ok \/ Cardinality(picks) # 2
        THEN [panic |-> TRUE, hand |-> h, returned |-> <<>>]
        ELSE LET i1 == CHOOSE i \in picks : \A j \in picks : i <= j
                 i2 == CHOOSE i \in picks : \A j \in picks : i >= j
                 retained == <<options[i1], options[i2]>>
             IN  [panic |-> FALSE, hand |-> retained,
                  returned |-> RemoveFirst(RemoveFirst(options, retained[1]),
                                           retained[2])]

\* The options of Human::lose_influence: the cards of the hand that are not
\* None
HumanLoseOptions(h) == {h[i] : i \in {1, 2}} \ {NoCard}

\* Human::lose_influence with the card `lost` the user selects among the
\* options: None without a prompt when there is no option
HumanLoseInfluence(h, ok, lost) ==
    IF HumanLoseOptions(h) = {} THEN [panic |-> FALSE, card |-> NoCard, hand |-> h]
    ELSE IF ~ok THEN [panic |-> TRUE, card |-> NoCard, hand |-> h]
    ELSE [panic |-> FALSE, card |-> lost,
          hand |-> IF h[1] = lost THEN <<NoCard, h[2]>> ELSE <<h[1], NoCard>>]

\* Human::check_challenge with the user's answer: no prompt for a claim of no
\* card or for an eliminated player
HumanCheckChallenge(h, card, ok, yes) ==
    IF card = NoCard \/ IsEliminated(h) THEN [panic |-> FALSE, result |-> FALSE]
    ELSE IF ~ok THEN [panic |-> TRUE, result |-> FALSE]
    ELSE [panic |-> FALSE, result |-> yes]

\* Human::check_block with the user's answer and, for a Steal, the card the
\* user blocks with (Captain or Ambassador).  A "Yes" to an Assassinate or a
\* Steal whose target is this player answers (false, None).
HumanCheckBlock(h, id, action, ok, yes, with) ==
    IF IsEliminated(h) \/ action.kind \notin {"ForeignAid", "Assassinate", "Steal"}
    THEN [panic |-> FALSE, result |-> <<FALSE, NoCard>>]
    ELSE IF ~ok THEN [panic |-> TRUE, result |-> <<FALSE, NoCard>>]
    ELSE IF ~yes THEN [panic |-> FALSE, result |-> <<FALSE, NoCard>>]
    ELSE IF action.kind = "ForeignAid" THEN [panic |-> FALSE, result |-> <<TRUE, Duke>>]
    ELSE IF action.target = id THEN [panic |-> FALSE, result |-> <<FALSE, NoCard>>]
    ELSE IF action.kind = "Assassinate"
    THEN [panic |-> FALSE, result |-> <<TRUE, Contessa>>]
    ELSE [panic |-> FALSE, result |-> <<TRUE, with>>]

\* Human::get_available_actions: as the agent's, with Tax, Steal, Exchange and
\* Assassinate offered whatever the hand
HumanGetAvailableActions(h, c, id, opponents, elim) ==
    LET ts == Targets(id, opponents, elim)
    IN  IF IsEliminated(h) THEN <<Pass>>
        ELSE IF c >= 10 THEN Coups(ts)
        ELSE <<Income, ForeignAid>>
             \o (IF c >= 7 THEN Coups(ts) ELSE <<>>)
             \o <<Tax>>
             \o Steals(ts)
             \o <<Exchange>>
             \o (IF c >= 3 THEN Assassinates(ts) ELSE <<>>)

\* Human::select_action: the action the user selects in the list, or a panic
\* when the prompt fails, as it does on an empty list
HumanSelectAction(actions) ==
    {actions[i] : i \in DOMAIN actions} \cup {Panic}

-----------------------------------------------------------------------------
(* Inputs of the calls on an agent and on the human player                 *)

\* Agents fresh and as a game left them
PlayedAgents ==
    UNION { {NewAgent(i, 3, par)}
            \cup {AfterGame(NewAgent(i, 3, par), e) : e \in GameEnds(i)} :
            i \in {0, 2}, par \in Parents }

AgentCalls ==
    { [fn |-> "clear", done |-> FALSE, agent |-> ag, after |-> ag] :
      ag \in PlayedAgents }
    \cup { [fn |-> "set_id", done |-> FALSE, agent |-> ag, id |-> i, after |-> ag] :
           ag \in PlayedAgents, i \in 0..3 }

\* Hands and draws of an Exchange
ExchangeHands == {<<Duke, Captain>>, <<Duke, Duke>>, <<NoCard, Assassin>>}
ExchangeDraws == {<<Duke, Contessa>>, <<Captain, Captain>>}

HandCalls ==
    { [fn |-> "gain_coins", done |-> FALSE, balance |-> c, amount |-> g,
       panic |-> FALSE, left |-> c] :
      c \in {0, 2, 9, CoinWidth - 3, CoinWidth - 2, CoinWidth - 1}, g \in 1..3 }
    \cup { [fn |-> "replace", done |-> FALSE, hand |-> h, current |-> c, new |-> n,
            left |-> h] :
           h \in SeatedHands, c \in {Duke, Captain, Contessa}, n \in {Duke, Assassin} }
    \cup { [fn |-> "deal", done |-> FALSE, hand |-> h, dealt |-> d, left |-> h] :
           h \in {<<NoCard, NoCard>>, <<NoCard, Duke>>}, d \in ExchangeHands }
    \cup { [fn |-> "agent_exchange", done |-> FALSE, hand |-> h, cards |-> d,
            left |-> h, returned |-> <<>>] :
           h \in ExchangeHands, d \in ExchangeDraws }

HumanCalls ==
    { [fn |-> "human_exchange", done |-> FALSE, hand |-> h, cards |-> d, ok |-> ok,
       picks |-> ps, panic |-> FALSE, left |-> h, returned |-> <<>>] :
      h \in ExchangeHands, d \in ExchangeDraws, ok \in BOOLEAN, ps \in SUBSET (1..4) }
    \cup { [fn |-> "human_lose_influence", done |-> FALSE, hand |-> h, ok |-> ok,
            panic |-> FALSE, card |-> NoCard, left |-> h] :
           h \in Card \X Card, ok \in BOOLEAN }
    \cup { [fn |-> "human_check_challenge", done |-> FALSE, hand |-> h, active |-> a,
            card |-> c, ok |-> ok, yes |-> y, panic |-> FALSE, result |-> FALSE] :
           h \in SeatedHands, a \in {1, 3}, c \in Card, ok \in BOOLEAN, y \in BOOLEAN }
    \cup { [fn |-> "human_check_block", done |-> FALSE, hand |-> h, id |-> i,
            action |-> a, ok |-> ok, yes |-> y, with |-> w, panic |-> FALSE,
            result |-> <<FALSE, NoCard>>] :
           h \in SeatedHands, i \in {0, 2}, a \in AllActions, ok \in BOOLEAN,
           y \in BOOLEAN, w \in {Captain, Ambassador} }
    \cup UNION { { [fn |-> "human_select_action", done |-> FALSE, hand |-> h, id |-> i,
                    coins |-> c, eliminated |-> el,
                    actions |-> HumanGetAvailableActions(h, c, i, 3, el),
                    result |-> Pass] :
                   h \in SeatedHands, c \in {2, 3, 7, 10},
                   el \in {{}, {1, 3}, (0..3) \ {i}} } :
                 i \in {0, 2} }

InitCalls ==
    /\ EngineNew(ShuffleA, 2, Indexed(<<0, 0>>), Indexed(<<50, 50>>))
    /\ cap = TurnCap
    /\ \/ \E c \in 0..MaxCoins, r \in 0..MaxAmount :
             call = [fn |-> "lose_coins", done |-> FALSE, balance |-> c, amount |-> r,
                     result |-> 0, left |-> c]
       \/ call \in EndgameCalls
       \/ call \in CheckChallengeCalls
       \/ call \in CheckBlockCalls
       \/ call \in SelectActionCalls
       \/ call \in AgentSelectCalls
       \/ call \in ComputeUtilityCalls
       \/ \E par \in Parents :
             call = [fn |-> "mutate", done |-> FALSE, parent |-> par, child |-> par]
       \/ \E n \in 0..MaxSeats :
             call = [fn |-> "engine_new", done |-> FALSE, players |-> n,
                     ok |-> FALSE, dealt |-> 0]
       \/ \E h \in Card \X Card, r \in BOOLEAN :
             call = [fn |-> "lose_influence", done |-> FALSE, hand |-> h, random |-> r,
                     card |-> NoCard, left |-> h]
       \/ call \in AgentCalls
       \/ call \in HandCalls
       \/ call \in HumanCalls

\* self.lose_coins(amount) on a player whose coins are call.balance: the value
\* returned and the coins left
CallLoseCoins ==
    /\ call.fn = "lose_coins" /\ ~call.done
    /\ LET lc == LoseCoins(call.balance, call.amount)
       IN  call' = [call EXCEPT !.done = TRUE, !.left = lc.coins, !.result = lc.lost]
    /\ UNCHANGED game_vars

\* self.compute_hands(killed): the table left in self.perceived_hands
CallComputeHands ==
    /\ call.fn = "compute_hands" /\ ~call.done
    /\ call' = [call EXCEPT !.done = TRUE,
                            !.table = ComputeHands(call.hand, call.id, call.opponents,
                                                   call.killed)]
    /\ UNCHANGED game_vars

\* self.check_challenge(active_player, card)
CallCheckChallenge ==
    /\ call.fn = "check_challenge" /\ ~call.done
    /\ call' = [call EXCEPT !.done = TRUE,
                            !.result = CheckChallenge(call.self.hand, call.self.table,
                                                      call.liar, call.active, call.card)]
    /\ UNCHANGED game_vars

\* self.check_block(action)
CallCheckBlock ==
    /\ call.fn = "check_block" /\ ~call.done
    /\ call' = [call EXCEPT !.done = TRUE,
                            !.result = CheckBlock(call.self.hand, call.self.table,
                                                  call.lying, call.self.id, call.action)]
    /\ UNCHANGED game_vars

\* self.lose_influence(), random() returning call.random: the card returned
\* and the hand left
CallLoseInfluence ==
    /\ call.fn = "lose_influence" /\ ~call.done
    /\ LET li == LoseInfluence(call.hand, call.random)
       IN  call' = [call EXCEPT !.done = TRUE, !.card = li.card, !.left = li.hand]
    /\ UNCHANGED game_vars

\* self.select_action(eliminated_players): any action the implementation can
\* return on the enumerated list
CallSelectAction ==
    /\ call.fn = "select_action" /\ ~call.done
    /\ \E a \in (IF call.impl = "Agent" THEN SelectAction(call.actions)
                  ELSE PlayerSelectAction(call.actions)) :
          call' = [call EXCEPT !.done = TRUE, !.result = a]
    /\ UNCHANGED game_vars

\* Engine::new(players) with call.players players
CallEngineNew ==
    /\ call.fn = "engine_new" /\ ~call.done
    /\ LET o == EngineNewOutcome(call.players)
       IN  call' = [call EXCEPT !.done = TRUE, !.ok = o.ok, !.dealt = o.dealt]
    /\ UNCHANGED game_vars

\* self.mutate(): the child's cutoffs and weights
CallMutate ==
    /\ call.fn = "mutate" /\ ~call.done
    /\ \E r1 \in 0..(MutateSteps - 1), r2 \in 0..(MutateSteps - 1), rs \in UtilityDraws :
          call' = [call EXCEPT !.done = TRUE, !.child = Mutate(call.parent, r1, r2, rs)]
    /\ UNCHANGED game_vars

\* Agent::select_action: get_available_actions, compute_utility of each
\* action, the sort and the first entry
CallAgentSelect ==
    /\ call.fn = "agent_select" /\ ~call.done
    /\ LET me == call.self
           acts == GetAvailableActions(me.hand, call.coins, me.table, call.lying,
                                       me.id, me.opponents, call.eliminated)
           us == AgentUtilities(acts, call.util, me.table, call.liar, me.id)
       IN  call' = [call EXCEPT !.done = TRUE, !.actions = acts,
                                !.utilities = [i \in DOMAIN us |-> us[i][2]],
                                !.result = AgentSelectAction(acts, call.util, me.table,
                                                             call.liar, me.id)]
    /\ UNCHANGED game_vars

\* self.compute_utility(action)
CallComputeUtility ==
    /\ call.fn = "compute_utility" /\ ~call.done
    /\ LET me == call.self
       IN  call' = [call EXCEPT !.done = TRUE,
                                !.result = ComputeUtility(call.util, me.table, call.liar,
                                                          me.id, call.action)]
    /\ UNCHANGED game_vars

\* self.clear() on an agent
CallClear ==
    /\ call.fn = "clear" /\ ~call.done
    /\ call' = [call EXCEPT !.done = TRUE, !.after = AgentClear(call.agent)]
    /\ UNCHANGED game_vars

\* self.set_id(id) on an agent
CallSetId ==
    /\ call.fn = "set_id" /\ ~call.done
    /\ call' = [call EXCEPT !.done = TRUE, !.after = SetId(call.agent, call.id)]
    /\ UNCHANGED game_vars

\* self.gain_coins(amount) of either implementation: `self.coins += coins`,
\* which wraps or, in a build with overflow checks, panics past 255
CallGainCoins ==
    /\ call.fn = "gain_coins" /\ ~call.done
    /\ LET g == GainCoins(call.balance, call.amount)
       IN  \E panics \in (IF g.overflow THEN BOOLEAN ELSE {FALSE}) :
             call' = [call EXCEPT !.done = TRUE, !.panic = panics,
                                  !.left = IF panics THEN call.balance ELSE g.coins]
    /\ UNCHANGED game_vars

\* self.replace(current, new) of either implementation
CallReplace ==
    /\ call.fn = "replace" /\ ~call.done
    /\ call' = [call EXCEPT !.done = TRUE,
                            !.left = Replace(call.hand, call.current, call.new)]
    /\ UNCHANGED game_vars

\* self.deal(hand) of either implementation
CallDeal ==
    /\ call.fn = "deal" /\ ~call.done
    /\ call' = [call EXCEPT !.done = TRUE, !.left = Deal(call.hand, call.dealt)]
    /\ UNCHANGED game_vars

\* self.exchange(cards) on an agent
CallAgentExchange ==
    /\ call.fn = "agent_exchange" /\ ~call.done
    /\ LET x == AgentExchange(call.hand, call.cards)
       IN  call' = [call EXCEPT !.done = TRUE, !.left = x.hand,
                                !.returned = x.returned]
    /\ UNCHANGED game_vars

\* self.exchange(cards) on the human player
CallHumanExchange ==
    /\ call.fn = "human_exchange" /\ ~call.done
    /\ LET x == HumanExchange(call.hand, call.cards, call.ok, call.picks)
       IN  call' = [call EXCEPT !.done = TRUE, !.panic = x.panic, !.left = x.hand,
                                !.returned = x.returned]
    /\ UNCHANGED game_vars

\* self.lose_influence() on the human player
CallHumanLoseInfluence ==
    /\ call.fn = "human_lose_influence" /\ ~call.done
    /\ \E lost \in (IF HumanLoseOptions(call.hand) = {} THEN {NoCard}
                     ELSE HumanLoseOptions(call.hand)) :
          LET x == HumanLoseInfluence(call.hand, call.ok, lost)
          IN  call' = [call EXCEPT !.done = TRUE, !.panic = x.panic,
                                   !.card = x.card, !.left = x.hand]
    /\ UNCHANGED game_vars

\* self.check_challenge(active_player, card) on the human player
CallHumanCheckChallenge ==
    /\ call.fn = "human_check_challenge" /\ ~call.done
    /\ LET x == HumanCheckChallenge(call.hand, call.card, call.ok, call.yes)
       IN  call' = [call EXCEPT !.done = TRUE, !.panic = x.panic,
                                !.result = x.result]
    /\ UNCHANGED game_vars

\* self.check_block(action) on the human player
CallHumanCheckBlock ==
    /\ call.fn = "human_check_block" /\ ~call.done
    /\ LET x == HumanCheckBlock(call.hand, call.id, call.action, call.ok, call.yes,
                                call.with)
       IN  call' = [call EXCEPT !.done = TRUE, !.panic = x.panic,
                                !.result = x.result]
    /\ UNCHANGED game_vars

\* self.select_action(eliminated_players) on the human player
CallHumanSelectAction ==
    /\ call.fn = "human_select_action" /\ ~call.done
    /\ \E a \in HumanSelectAction(call.actions) :
          call' = [call EXCEPT !.done = TRUE, !.result = a]
    /\ UNCHANGED game_vars

NextCalls ==
    \/ CallLoseCoins
    \/ CallComputeHands
    \/ CallCheckChallenge
    \/ CallCheckBlock
    \/ CallLoseInfluence
    \/ CallSelectAction
    \/ CallEngineNew
    \/ CallMutate
    \/ CallAgentSelect
    \/ CallComputeUtility
    \/ CallClear
    \/ CallSetId
    \/ CallGainCoins
    \/ CallReplace
    \/ CallDeal
    \/ CallAgentExchange
    \/ CallHumanExchange
    \/ CallHumanLoseInfluence
    \/ CallHumanCheckChallenge
    \/ CallHumanCheckBlock
    \/ CallHumanSelectAction

SpecCalls == InitCalls /\ [][NextCalls]_vars

-----------------------------------------------------------------------------
(* The trainer (main.rs, train).  Its state is held in `call`: the          *)
(* generation being played, the number of its games played so far, the     *)
(* survivors of the previous generation (winners) and of this one          *)
(* (new_winners), and the four players handed to Engine::new for the game  *)
(* played last (seats).                                                    *)

\* The number of games of generation 0 (1000 in main.rs) and the largest
\* number of generations asked for
Population == 2
MaxGenerations == 3

\* The draws of random() for one mutated seat: <<r1, r2, rs>>
TrainDraws ==
    { <<0, MutateSteps - 1, [k \in DOMAIN UtilityKinds |-> 0]>>,
      <<MutateSteps - 1, 1, [k \in DOMAIN UtilityKinds |-> k % MutateSteps]>> }

\* The four players of a game of generation 0: Agent::new(i, 3), each with
\* parameters drawn on its own (here seats 0, 2 and seats 1, 3 draw alike)
FirstSeats ==
    { [i \in 0..3 |-> NewAgent(i, 3, ps[i + 1])] :
      ps \in {<<a, b, a, b>> : a \in Parents, b \in Parents} }

\* The four players of a later game, from the lineage's survivor (seats 1
\* and 3 draw alike here)
NextSeats(metadata) ==
    LET player == FromMetadata(0, 3, metadata)
    IN  { [i \in 0..3 |->
             IF i = 0 THEN player
             ELSE WithId(AgentMutate(player, ds[i][1], ds[i][2], ds[i][3]), i)] :
          ds \in {<<a, b, a>> : a \in TrainDraws, b \in TrainDraws} }

InitTrain ==
    /\ EngineNew(ShuffleA, 2, Indexed(<<0, 0>>), Indexed(<<50, 50>>))
    /\ cap = TurnCap
    /\ \E g \in 0..MaxGenerations :
          call = [fn |-> "train", generations |-> g, gen |-> 0, game |-> 0,
                  winners |-> <<>>, new_winners |-> <<>>, seats |-> <<>>,
                  done |-> FALSE]

\* One game of generation 0; the winner play() returns is one of its players.
TrainFirstGame ==
    /\ call.fn = "train" /\ ~call.done
    /\ call.gen = 0 /\ call.game < Population
    /\ \E seats \in FirstSeats, w \in 0..3 :
       \E end \in GameEnds(w) :
          call' = [call EXCEPT !.seats = seats,
                               !.game = @ + 1,
                               !.winners = Append(@, EnginePlay(seats, w, end))]
    /\ UNCHANGED game_vars

\* One game of a later generation, for the lineage winners[game]
TrainNextGame ==
    /\ call.fn = "train" /\ ~call.done
    /\ call.gen >= 1 /\ call.game < Len(call.winners)
    /\ \E seats \in NextSeats(call.winners[call.game + 1]), w \in 0..3 :
       \E end \in GameEnds(w) :
          call' = [call EXCEPT !.seats = seats,
                               !.game = @ + 1,
                               !.new_winners = Append(@, EnginePlay(seats, w, end))]
    /\ UNCHANGED game_vars

\* The games of a generation are played
GenerationOver ==
    IF call.gen = 0 THEN call.game = Population ELSE call.game = Len(call.winners)

\* `winners = new_winners` at the end of a later generation
Survivors == IF call.gen = 0 THEN call.winners ELSE call.new_winners

\* for gen in 1..generations: the next generation begins
TrainNextGeneration ==
    /\ call.fn = "train" /\ ~call.done
    /\ GenerationOver
    /\ call.gen + 1 < call.generations
    /\ call' = [call EXCEPT !.gen = @ + 1, !.game = 0, !.winners = Survivors,
                            !.new_winners = <<>>]
    /\ UNCHANGED game_vars

\* The last generation is over
TrainFinish ==
    /\ call.fn = "train" /\ ~call.done
    /\ GenerationOver
    /\ call.gen + 1 >= call.generations
    /\ call' = [call EXCEPT !.done = TRUE, !.winners = Survivors]
    /\ UNCHANGED game_vars

NextTrain == TrainFirstGame \/ TrainNextGame \/ TrainNextGeneration \/ TrainFinish

SpecTrain == InitTrain /\ [][NextTrain]_vars

-----------------------------------------------------------------------------
(* Properties                                                              *)

RealCount(h) == (IF h[1] # NoCard THEN 1 ELSE 0) + (IF h[2] # NoCard THEN 1 ELSE 0)

Slots == {1, 2}
HeldCopies(c) == Cardinality({ps \in Players \X Slots : hand[ps[1]][ps[2]] = c})
HeldCards == Cardinality({ps \in Players \X Slots : hand[ps[1]][ps[2]] # NoCard})
Alive == {p \in Players : ~IsEliminated(hand[p])}
TurnTaken == last.active # NoPlayer

\* C1: for each of the five card types the copies in the deck, in the hands
\* and in the kill ledger add up to 3, and deck size + real cards in hands +
\* ledger size is 15, in every reachable state.
C1_Conservation ==
    /\ \A c \in RealCards :
          CountSeq(deck, c) + HeldCopies(c) + CountSeq(killed, c) = CopiesPerCard
    /\ Len(deck) + HeldCards + Len(killed) = DeckSize

\* A challenged claim was held (a card went to the deck bottom, one was drawn)
\* and influence was lost as well.
C1_Witness == TurnTaken /\ last.held /\ Len(killed) >= 2

\* C2: turn() returns Some(w) exactly when, as it returns, w is the only
\* player not eliminated.
C2_WinnerSignalled ==
    TurnTaken =>
        /\ (last.result # NoPlayer) <=> (Cardinality(Alive) = 1)
        /\ last.result # NoPlayer => last.result \in Alive

\* C3: play() always returns, after at most `cap` calls of turn(), and when
\* the cap is reached it returns player 0: it makes no more calls than the
\* cap, goes on while it has not returned, and never ends in a panic.
C3_PlayCapped ==
    /\ counter <= cap
    /\ counter = cap => returned = 0
    /\ returned = NoPlayer => ENABLED Next
    /\ returned # Panicked

\* The loop alone: at most `cap` calls, player 0 at the cap.
C3_LoopCapped ==
    /\ counter <= cap
    /\ counter = cap => returned = 0
    /\ returned = NoPlayer => ENABLED Next

\* The cap was reached with no winner signalled.
C3_Witness == counter = cap /\ option = NoPlayer /\ returned = 0

\* C4: a winner signalled by any of the first `cap` turns is the player
\* play() returns; player 0 is the default only when no turn signalled one.
C4_NaturalWinnerReturned ==
    (returned # NoPlayer /\ option # NoPlayer) => returned = option

\* C5: a hand slot that holds the sentinel holds it after every later step,
\* so an eliminated player stays eliminated.
C5_SentinelStays ==
    [][\A p \in Players :
          /\ \A s \in Slots : hand[p][s] = NoCard => hand'[p][s] = NoCard
          /\ IsEliminated(hand[p]) => IsEliminated(hand'[p])]_vars

\* A player with one sentinel slot had its claimed card swapped for a drawn
\* one, or blocked with a card it held and had it swapped.
C5_Witness ==
    /\ TurnTaken
    /\ \/ last.held /\ RealCount(last.after_challenge.hand[last.active]) = 1
       \/ last.block_held /\ RealCount(hand[last.blocker]) = 1

\* The slot of hand h that replace() writes for card c
HeldSlot(h, c) == IF h[1] = c THEN 1 ELSE 2

\* C6: when the active player's claim is challenged and the card is held, then
\* after the challenge phase the challenger has one influence less and the
\* revealed card is the new last entry of the kill ledger, the claimed card is
\* at the bottom of the deck, the claimant's slot that held it has the card
\* that was on top of the deck, which left the deck; and the action is not
\* prevented by the challenge (an unblocked Tax gives +3 coins).
C6_ChallengeOfHeldClaim ==
    [][(last'.challenger # NoPlayer /\ last'.held) =>
        LET a == last'.active
            ch == last'.challenger
            card == last'.card
            mid == last'.after_challenge
            s == HeldSlot(hand[a], card)
        IN  /\ RealCount(mid.hand[ch]) = RealCount(hand[ch]) - 1
            /\ Len(mid.killed) = Len(killed) + 1
            /\ SubSeq(mid.killed, 1, Len(killed)) = killed
            /\ \E t \in Slots :
                  /\ hand[ch][t] = mid.killed[Len(mid.killed)]
                  /\ mid.hand[ch] = [hand[ch] EXCEPT ![t] = NoCard]
            /\ mid.deck = Append(Tail(deck), card)
            /\ hand[a][s] = card
            /\ mid.hand[a] = [hand[a] EXCEPT ![s] = Head(deck)]
            /\ \A p \in Players \ {a, ch} : mid.hand[p] = hand[p]
            /\ last'.blocker = NoPlayer => ~last'.prevented
            /\ (last'.blocker = NoPlayer /\ last'.action.kind = "Tax")
                  => coins'[a] = coins[a] + 3]_vars

\* A Tax whose Duke was held was challenged, not blocked, and paid 3 coins.
C6_Witness ==
    /\ TurnTaken
    /\ last.challenger # NoPlayer /\ last.held
    /\ last.action.kind = "Tax" /\ last.blocker = NoPlayer
    /\ coins[last.active] = last.coins_before[last.active] + 3

\* C7: a Coup is never challenged and never blocked; it executes, costs the
\* active player 7 coins (7 down to 0, never below) and takes exactly one
\* influence from the target.
C7_CoupUnstoppable ==
    [][last'.action.kind = "Coup" =>
        LET a == last'.active
            t == last'.action.target
        IN  /\ last'.challenger = NoPlayer
            /\ last'.blocker = NoPlayer
            /\ ~last'.prevented
            /\ coins[a] >= 7
            /\ coins'[a] = coins[a] - 7
            /\ RealCount(hand[t]) >= 1
            /\ RealCount(hand'[t]) = RealCount(hand[t]) - 1
            /\ Len(killed') = Len(killed) + 1]_vars

\* A Coup from exactly 7 coins, and one in a game whose other player
\* challenges and blocks.
C7_Witness ==
    /\ last.action.kind = "Coup"
    /\ last.coins_before[last.active] = 7
    /\ coins[last.active] = 0

C7_WitnessRivals ==
    /\ last.action.kind = "Coup"
    /\ \E p \in Players \ {last.active} : liar_cutoff[p] > 0 /\ lying_cutoff[p] < 50

\* C8: an executed Steal(target) moves min(2, target's coins) from the target
\* to the active player and changes no other balance.
C8_StealMovesCoins ==
    [][(last'.action.kind = "Steal" /\ ~last'.prevented) =>
        LET a == last'.active
            t == last'.action.target
            amount == Min(2, coins[t])
        IN  /\ coins'[a] = coins[a] + amount
            /\ coins'[t] = coins[t] - amount
            /\ coins'[a] + coins'[t] = coins[a] + coins[t]
            /\ \A p \in Players \ {a, t} : coins'[p] = coins[p]]_vars

\* A Steal was executed against a target that had fewer than 2 coins.
C8_Witness ==
    /\ last.action.kind = "Steal" /\ ~last.prevented
    /\ last.coins_before[last.action.target] < 2

\* C9: lose_coins(r) on a balance c returns min(c, r) and leaves c - min(c, r),
\* which is not negative; the call completes whatever c and r are.
C9_LoseCoinsClamps ==
    call.fn = "lose_coins" =>
        /\ call.done =>
              /\ call.result = Min(call.balance, call.amount)
              /\ call.left = call.balance - Min(call.balance, call.amount)
              /\ call.left >= 0
        /\ ~call.done => ENABLED CallLoseCoins

\* lose_coins was asked for more than the balance and returned the balance.
C9_Witness ==
    /\ call.fn = "lose_coins" /\ call.done
    /\ call.amount > call.balance /\ call.balance > 0
    /\ call.result = call.balance /\ call.left = 0

\* C10: every belief stored by compute_hands is a number in [0,1], and the
\* pool sizes N and N - 1 it divides by are not zero: in the tables of the
\* players of a game, and in the table any call of compute_hands leaves.
InUnitInterval(b) == b[2] > 0 /\ 0 <= b[1] /\ b[1] <= b[2]

C10_BeliefRange ==
    /\ \A p \in DOMAIN perceived_hands :
          \A i \in DOMAIN perceived_hands[p] :
              \A c \in RealCards : InUnitInterval(perceived_hands[p][i][c])
    /\ TurnTaken =>
          /\ PrivateAvailable(killed) \notin {0, 1}
          /\ PublicAvailable(killed) \notin {0, 1}
    /\ (call.fn = "compute_hands" /\ call.done) =>
          /\ \A i \in DOMAIN call.table :
                \A c \in RealCards : InUnitInterval(call.table[i][c])
          /\ PrivateAvailable(call.killed) \notin {0, 1}
          /\ PublicAvailable(call.killed) \notin {0, 1}

\* The part of C10 that the games played under Spec decide: games of two to
\* four players.
C10_InModelGames ==
    \A p \in DOMAIN perceived_hands :
        \A i \in DOMAIN perceived_hands[p] :
            \A c \in RealCards : InUnitInterval(perceived_hands[p][i][c])

\* C11: compute_hands of an observer with hand h, on the kill ledger K, stores
\* one table per index 0..=opponents; at the observer's own index the value
\* for card c is P(15 - |K|, 3 - count_K(c)), at every other index it is
\* P(15 - |K| - 2, 3 - count_K(c) - count_h(c)), where
\* P(N, k) = 1 - ((N - k)/N) * ((N - 1 - k)/(N - 1)).  A hand {Duke, Duke} with
\* no kills gives 2/13 for an opponent holding Duke.
\* b = P(N, k), as 1 - b = ((N - k)/N) * ((N - 1 - k)/(N - 1))
IsP(b, N, k) ==
    /\ b[2] > 0
    /\ (b[2] - b[1]) * N * (N - 1) = (N - k) * (N - 1 - k) * b[2]

C11_ComputeHands ==
    LET hb == IF TurnTaken THEN last.hand_before ELSE hand
        K == IF TurnTaken THEN last.killed_before ELSE <<>>
    IN  \A p \in Players :
          /\ DOMAIN perceived_hands[p] = 0..(NumPlayers - 1)
          /\ \A c \in RealCards :
                /\ IsP(perceived_hands[p][p][c],
                       15 - Len(K), 3 - CountSeq(K, c))
                /\ \A i \in Players \ {p} :
                      IsP(perceived_hands[p][i][c],
                          15 - Len(K) - 2, 3 - CountSeq(K, c) - CountSeq(hb[p], c))
          /\ (hb[p] = <<Duke, Duke>> /\ K = <<>>) =>
                \A i \in Players \ {p} :
                    13 * perceived_hands[p][i][Duke][1] = 2 * perceived_hands[p][i][Duke][2]

\* A turn began with dead cards in the ledger and an observer down to one
\* card; its tables were computed from them.
C11_Witness ==
    /\ TurnTaken
    /\ Len(last.killed_before) >= 2
    /\ \E p \in Players :
          /\ RealCount(last.hand_before[p]) = 1
          /\ perceived_hands[p] =
                ComputeHands(last.hand_before[p], p, NumPlayers - 1, last.killed_before)

\* C12: check_challenge(active, card) returns false when card is the sentinel
\* or the asked player is eliminated, and otherwise returns true exactly when
\* the asked player's stored belief perceived_hands[active][card] is less than
\* its liar_cutoff (in hundredths here).
C12_CheckChallenge ==
    (call.fn = "check_challenge" /\ call.done) =>
        LET me == call.self
        IN  /\ call.card = NoCard => call.result = FALSE
            /\ me.hand = <<NoCard, NoCard>> => call.result = FALSE
            /\ (call.card # NoCard /\ me.hand # <<NoCard, NoCard>>) =>
                  LET b == me.table[call.active][call.card]
                  IN  call.result = BeliefLess(b, call.liar)

\* A player still in the game challenged a claim it believed less than its
\* cutoff, the claimant being another player.
C12_Witness ==
    /\ call.fn = "check_challenge" /\ call.done /\ call.result
    /\ call.active # call.self.id
    /\ call.liar < 100
    /\ RealCount(call.self.hand) = 1

\* a challenge on a stored belief of 0.19999999999999996, against a cutoff 0.20
C12_WitnessRounded ==
    /\ call.fn = "check_challenge" /\ call.done /\ call.result
    /\ call.liar = 20
    /\ call.self.table[call.active][call.card] = Belief(10, 1)

\* C13: a block of Assassinate claims Contessa: a challenge of that block is
\* decided by whether the blocker holds Contessa, and when it does a Contessa
\* goes to the bottom of the deck.
C13_AssassinateBlockedWithContessa ==
    (TurnTaken /\ last.action.kind = "Assassinate" /\ last.blocker # NoPlayer) =>
        /\ last.block_card = Contessa
        /\ last.block_challenger # NoPlayer =>
              /\ last.block_held
                    <=> Contains(last.after_challenge.hand[last.blocker], Contessa)
              /\ last.block_held => deck[Len(deck)] = Contessa

\* C14: check_block is never true for an eliminated player, nor for Income,
\* Coup, Tax, Exchange or Pass; it is true for Steal(t) or Assassinate(t) only
\* when the asked player is t; when it is true the self-perceived probability
\* it rests on (Duke for ForeignAid, Contessa for Assassinate, the claimed card
\* for Steal) is above lying_cutoff; and for Steal the card claimed is the one
\* of Captain and Ambassador with the higher self-perceived probability.
\* b > cut/100 and a >= b, on beliefs with positive denominators
Exceeds(b, cut) == b[1] * 100 > cut * b[2]
AtLeast(a, b) == a[1] * b[2] >= b[1] * a[2]

C14_CheckBlock ==
    (call.fn = "check_block" /\ call.done /\ call.result[1]) =>
        LET me == call.self
            own == me.table[me.id]
            kind == call.action.kind
            claimed == call.result[2]
        IN  /\ me.hand # <<NoCard, NoCard>>
            /\ kind \in {"ForeignAid", "Steal", "Assassinate"}
            /\ kind \in {"Steal", "Assassinate"} => call.action.target = me.id
            /\ kind = "ForeignAid" => Exceeds(own[Duke], call.lying)
            /\ kind = "Assassinate" => Exceeds(own[Contessa], call.lying)
            /\ kind = "Steal" =>
                  /\ claimed \in {Captain, Ambassador}
                  /\ Exceeds(own[claimed], call.lying)
                  /\ AtLeast(own[claimed], own[Captain])
                  /\ AtLeast(own[claimed], own[Ambassador])

\* A Steal was blocked with Captain, the likelier of the two cards.
C14_Witness ==
    /\ call.fn = "check_block" /\ call.done /\ call.result[1]
    /\ call.action.kind = "Steal"
    /\ call.result[2] = Captain
    /\ ~AtLeast(call.self.table[call.self.id][Ambassador],
                call.self.table[call.self.id][Captain])

\* C15: lose_influence on a hand with exactly one real card sets that slot to
\* the sentinel and returns that card; on a hand with two real cards it sets
\* exactly one of the two slots to the sentinel and returns the card that was
\* there; on a hand of two sentinels it returns the sentinel and leaves the
\* hand unchanged.
C15_LoseInfluence ==
    (call.fn = "lose_influence" /\ call.done) =>
        LET h == call.hand
            real == {s \in Slots : h[s] # NoCard}
        IN  /\ real = {} => (call.card = NoCard /\ call.left = h)
            /\ real # {} =>
                  \E s \in real :
                      /\ call.card = h[s]
                      /\ call.left = [h EXCEPT ![s] = NoCard]

\* The only real card was in slot 0 while random() pointed at slot 1.
C15_Witness ==
    /\ call.fn = "lose_influence" /\ call.done
    /\ call.hand[1] # NoCard /\ call.hand[2] = NoCard /\ call.random
    /\ call.card = call.hand[1]
    /\ call.left = <<NoCard, NoCard>>

\* C16: whenever a turn is about to be played, the list of legal actions
\* enumerated for the active player is not empty: it holds Pass if that player
\* is eliminated, and Income or at least one Coup otherwise.
ActiveActions ==
    LET a == active_player
    IN  GetAvailableActions(hand[a], coins[a],
                            ComputeHands(hand[a], a, NumPlayers - 1, killed),
                            lying_cutoff[a], a, NumPlayers - 1,
                            {p \in Players : IsEliminated(hand[p])})

C16_SomeLegalAction ==
    (returned = NoPlayer /\ option = NoPlayer) =>
        LET acts == {ActiveActions[i] : i \in DOMAIN ActiveActions}
        IN  /\ acts # {}
            /\ IsEliminated(hand[active_player]) => Pass \in acts
            /\ ~IsEliminated(hand[active_player]) =>
                  (Income \in acts \/ \E x \in acts : x.kind = "Coup")

\* C17: when the list of legal actions enumerated for a player is empty,
\* select_action returns Pass (and the turn goes on).
C17_EmptyListPasses ==
    (call.fn = "select_action" /\ call.done /\ call.actions = <<>>) =>
        call.result = Pass

\* C18: Engine::new given no player, or more players than the 15 cards can
\* serve, fails before any player has been dealt a hand: it returns no engine
\* and has dealt nothing.
C18_NewFailsFast ==
    (call.fn = "engine_new" /\ call.done
        /\ (call.players = 0 \/ 2 * call.players > DeckSize)) =>
        /\ ~call.ok
        /\ call.dealt = 0

\* C19: the kill ledger only grows: across a turn its previous content is a
\* prefix of its new content.
C19_LedgerGrows ==
    TurnTaken =>
        /\ Len(killed) >= Len(last.killed_before)
        /\ SubSeq(killed, 1, Len(last.killed_before)) = last.killed_before
        /\ SubSeq(last.after_challenge.killed, 1, Len(last.killed_before))
              = last.killed_before
        /\ SubSeq(killed, 1, Len(last.after_challenge.killed))
              = last.after_challenge.killed

\* A turn that began with dead cards added two more.
C19_Witness ==
    /\ TurnTaken
    /\ last.killed_before # <<>>
    /\ Len(killed) = Len(last.killed_before) + 2

\* C20: mutate yields liar_cutoff and lying_cutoff each within 0.01 of the
\* parent's value (0.50 gives a value in [0.49, 0.51]), and each of the 7
\* utility weights grows by an amount in [0, 0.1).
C20_MutateBounds ==
    (call.fn = "mutate" /\ call.done) =>
        LET par == call.parent
            ch == call.child
            hundredth == MutateSteps
            tenth == MutateSteps
        IN  /\ par.liar - hundredth <= ch.liar /\ ch.liar <= par.liar + hundredth
            /\ par.lying - hundredth <= ch.lying /\ ch.lying <= par.lying + hundredth
            /\ par.liar = 50 * hundredth =>
                  (49 * hundredth <= ch.liar /\ ch.liar <= 51 * hundredth)
            /\ DOMAIN ch.utilities = 1..7
            /\ \A k \in 1..7 :
                  /\ ch.utilities[k] - par.utilities[k] >= 0
                  /\ ch.utilities[k] - par.utilities[k] < tenth

\* A child at the lower end of the range (0.49 from 0.50) with a weight that
\* grew.
C20_Witness ==
    /\ call.fn = "mutate" /\ call.done
    /\ call.parent.liar = 50 * MutateSteps
    /\ call.child.liar = 49 * MutateSteps
    /\ \E k \in 1..7 : call.child.utilities[k] > call.parent.utilities[k]

\* The claim of the last turn was challenged and the claimant lacked the card.
FailedClaim == TurnTaken /\ last.challenger # NoPlayer /\ ~last.held

\* C21: when the active player's claim is challenged and the active player
\* does not hold the claimed card, the active player loses exactly one
\* influence and its card is the new last entry of the kill ledger; the
\* challenger and every other player keep their hands, the deck is untouched,
\* the action is prevented and no player's coins change in that turn.
C21_FailedClaim ==
    FailedClaim =>
        LET a == last.active
            before == last.hand_before
        IN  /\ last.prevented
            /\ RealCount(before[a]) >= 1
            /\ RealCount(hand[a]) = RealCount(before[a]) - 1
            /\ \E s \in Slots :
                  /\ before[a][s] # NoCard
                  /\ hand[a] = [before[a] EXCEPT ![s] = NoCard]
                  /\ killed = Append(last.killed_before, before[a][s])
            /\ \A p \in Players \ {a} : hand[p] = before[p]
            /\ coins = last.coins_before
            /\ last.after_challenge.hand = hand
            /\ last.after_challenge.killed = killed

\* A bluffed Assassinate or Steal was challenged: without the challenge its
\* target would have lost an influence or coins.
C21_Witness ==
    /\ FailedClaim
    /\ last.action.kind \in {"Assassinate", "Steal", "Tax"}
    /\ last.coins_before[last.active] >= 3

\* C22: in a turn whose challenge phase prevented the action (the claimant
\* lacked the claimed card) the block phase is skipped: check_block is
\* invoked on no player.
C22_BlockPhaseSkipped ==
    FailedClaim => last.block_asked = {}

\* The action of the last turn was blocked.
Blocked == TurnTaken /\ last.blocker # NoPlayer

\* State st2 is st1 after player p lost exactly one influence, the card it
\* lost being the new last entry of the kill ledger.
LostOne(st1, st2, p) ==
    \E s \in Slots :
        /\ st1.hand[p][s] # NoCard
        /\ st2.hand[p] = [st1.hand[p] EXCEPT ![s] = NoCard]
        /\ st2.killed = Append(st1.killed, st1.hand[p][s])

\* C23: when an action is blocked, (a) if nobody challenges the block the
\* action does not execute and the block costs no influence; (b) if the block
\* is challenged and the blocker holds the blocking card, the challenger loses
\* one influence, the blocker's card goes to the bottom of the deck and the
\* card on top of the deck takes its slot, and the action does not execute;
\* (c) if the block is challenged and the blocker lacks the card, the blocker
\* loses one influence and the action executes.
C23_Block ==
    Blocked =>
        LET a == last.active
            i == last.blocker
            j == last.block_challenger
            card == last.block_card
            mid == last.after_challenge
            blk == last.after_block
            now == Game
        IN  /\ j = NoPlayer => last.prevented /\ blk = mid /\ now = mid
            /\ (j # NoPlayer /\ last.block_held) =>
                  /\ last.prevented
                  /\ j # i
                  /\ LostOne(mid, blk, j)
                  /\ \E s \in Slots :
                        /\ mid.hand[i][s] = card
                        /\ blk.hand[i] = [mid.hand[i] EXCEPT ![s] = Head(mid.deck)]
                  /\ blk.deck = Append(Tail(mid.deck), card)
                  /\ \A p \in Players \ {i, j} : blk.hand[p] = mid.hand[p]
                  /\ blk.coins = mid.coins
                  /\ now = blk
            /\ (j # NoPlayer /\ ~last.block_held) =>
                  /\ ~last.prevented
                  /\ LostOne(mid, blk, i)
                  /\ \A p \in Players \ {i} : blk.hand[p] = mid.hand[p]
                  /\ blk.deck = mid.deck /\ blk.coins = mid.coins
                  /\ \E r \in BOOLEAN : now = CompleteAction(blk, a, last.action, r)
                  /\ last.action.kind = "ForeignAid" => coins[a] = blk.coins[a] + 2
                  /\ last.action.kind = "Steal" =>
                        coins[a] = blk.coins[a] + Min(2, blk.coins[last.action.target])
                  /\ last.action.kind = "Assassinate" => coins[a] = blk.coins[a] - 3

\* A block was challenged, the blocker lacked the card and the action went
\* through; a block was challenged and the blocker held the card; a block
\* went unchallenged.
C23_Witness ==
    /\ Blocked /\ last.block_challenger # NoPlayer /\ ~last.block_held
    /\ coins # last.coins_before

C23_WitnessHeld ==
    Blocked /\ last.block_challenger # NoPlayer /\ last.block_held

C23_WitnessUnchallenged ==
    Blocked /\ last.block_challenger = NoPlayer

\* C24: the challenger of a block is the first player other than the blocker,
\* still in the game (the original active player included), whose belief that
\* the blocker holds the blocking card, perceived_hands[blocker][card], is
\* less than its liar_cutoff.
C24_CounterChallengeBelief ==
    Blocked =>
        LET i == last.blocker
            card == last.block_card
            mid == last.after_challenge
        IN  last.block_challenger =
                FirstOf({p \in Players \ {i} :
                            /\ ~IsEliminated(mid.hand[p])
                            /\ BeliefLess(perceived_hands[p][i][card], liar_cutoff[p])})

\* The players who answered yes to the engine's check_challenge about `card`
\* (hands hs; the engine passes self.active_player) and to its check_block.
ChallengeYes(hs, card) ==
    {p \in Players : CheckChallenge(hs[p], perceived_hands[p], liar_cutoff[p],
                                    last.active, card)}
BlockYes(hs) ==
    {p \in Players : CheckBlock(hs[p], perceived_hands[p], lying_cutoff[p], p,
                                last.action)[1]}

\* `chosen` is the lowest index among the eligible players who said yes, or
\* nobody when none of them did.
LowestYes(chosen, eligible, yes) ==
    IF chosen = NoPlayer THEN eligible \cap yes = {}
    ELSE /\ chosen \in eligible \cap yes
         /\ \A p \in eligible \cap yes : chosen <= p

\* C25: the challenger of a claim is the lowest-index player who answers yes
\* among the players still in the game other than the claimant (the active
\* player, or the blocker for the challenge of a block), and the blocker is the
\* lowest-index player who answers yes among those still in the game other
\* than the active player; an eliminated player, the claimant of a challenge
\* and the active player of a block are never selected.
C25_LowestIndexResponds ==
    TurnTaken =>
        LET before == last.hand_before
            mid == last.after_challenge.hand
            in_before == {p \in Players : ~IsEliminated(before[p])}
            in_mid == {p \in Players : ~IsEliminated(mid[p])}
        IN  /\ LowestYes(last.challenger, in_before \ {last.active},
                         ChallengeYes(before, last.card))
            /\ ~FailedClaim =>
                  LowestYes(last.blocker, in_mid \ {last.active}, BlockYes(mid))
            /\ Blocked =>
                  LowestYes(last.block_challenger, in_mid \ {last.blocker},
                            ChallengeYes(mid, last.block_card))
            /\ last.challenger # NoPlayer =>
                  last.challenger \in in_before \ {last.active}
            /\ last.blocker # NoPlayer => last.blocker \in in_mid \ {last.active}
            /\ last.block_challenger # NoPlayer =>
                  last.block_challenger \in in_mid \ {last.blocker}

\* Two players still in the game answered yes to the challenge of a claim and
\* the lower index was taken; the same for a block, with an eliminated player
\* seated.
C25_Witness ==
    /\ TurnTaken
    /\ last.challenger # NoPlayer
    /\ \E p \in Players \ {last.active} :
          /\ p > last.challenger
          /\ ~IsEliminated(last.hand_before[p])
          /\ p \in ChallengeYes(last.hand_before, last.card)

C25_WitnessBlock ==
    /\ Blocked
    /\ \E p \in Players \ {last.active} :
          /\ p > last.blocker
          /\ p \in BlockYes(last.after_challenge.hand)

C25_WitnessEliminated ==
    /\ TurnTaken
    /\ last.challenger # NoPlayer
    /\ \E p \in Players : p < last.challenger /\ IsEliminated(last.hand_before[p])

\* C26: Tax claims Duke, Assassinate Assassin, Exchange Ambassador and Steal
\* Captain; Income, ForeignAid, Coup and Pass claim no card, and a turn whose
\* action claims no card has no challenger: its challenge phase leaves every
\* hand and the kill ledger as they were.
C26_ClaimedCard ==
    TurnTaken =>
        LET k == last.action.kind
        IN  /\ k = "Tax" => last.card = Duke
            /\ k = "Assassinate" => last.card = Assassin
            /\ k = "Exchange" => last.card = Ambassador
            /\ k = "Steal" => last.card = Captain
            /\ k \in {"Income", "ForeignAid", "Coup", "Pass"} => last.card = NoCard
            /\ last.card = NoCard =>
                  /\ last.challenger = NoPlayer
                  /\ last.after_challenge.hand = last.hand_before
                  /\ last.after_challenge.killed = last.killed_before
                  /\ last.after_challenge.coins = last.coins_before

\* An action with no claimed card was taken in front of a player, still in the
\* game, that challenges every claimed card while no card is dead.
C26_Witness ==
    /\ TurnTaken
    /\ last.action.kind \in {"Income", "ForeignAid", "Coup"}
    /\ last.killed_before = <<>>
    /\ \E p \in Players \ {last.active} :
          /\ ~IsEliminated(last.hand_before[p])
          /\ liar_cutoff[p] >= 45

\* The action of the last turn was executed (complete_action was called).
Executed == TurnTaken /\ ~last.prevented

\* The coins of an executed action: what complete_action does to the balances
\* of the state `blk` it starts from.
CoinsAsStated ==
    LET a == last.active
        k == last.action.kind
        blk == last.after_block
    IN  /\ blk.coins = last.coins_before
        /\ k = "Income" => coins[a] = blk.coins[a] + 1
        /\ k = "ForeignAid" => coins[a] = blk.coins[a] + 2
        /\ k = "Tax" => coins[a] = blk.coins[a] + 3
        /\ k \in {"Income", "ForeignAid", "Tax"} =>
              hand = blk.hand /\ killed = blk.killed /\ deck = blk.deck
        /\ k = "Assassinate" => blk.coins[a] >= 3 /\ coins[a] = blk.coins[a] - 3
        /\ k = "Pass" => Game = blk /\ hand = last.hand_before
        /\ \A p \in Players \ {a} :
              (k # "Steal" \/ p # last.action.target) => coins[p] = last.coins_before[p]

\* C27 as stated: an executed Income gives the active player +1, ForeignAid
\* +2, Tax +3; an executed Assassinate(target) costs the active player 3 coins
\* and makes the target lose one influence; Pass changes nothing; no player
\* other than the active player and the target of a Steal has its coins
\* changed by a turn.
C27_ExecutedAction ==
    /\ Executed =>
          /\ CoinsAsStated
          /\ last.action.kind = "Assassinate" =>
                LostOne(last.after_block, Game, last.action.target)
    /\ TurnTaken =>
          \A p \in Players \ {last.active} :
              (last.action.kind # "Steal" \/ p # last.action.target)
                  => coins[p] = last.coins_before[p]

\* C27, amended: as stated, except that an executed Assassinate(target) takes
\* one influence from the target only when the target still holds a card as
\* the action executes; a target that lost its last card earlier in the same
\* turn (a challenge it lost, a block it bluffed) loses nothing more and the
\* kill ledger stays as it was, while the active player still pays 3 coins.
C27_ExecutedActionAmended ==
    /\ Executed =>
          /\ CoinsAsStated
          /\ last.action.kind = "Assassinate" =>
                LET blk == last.after_block
                    t == last.action.target
                IN  IF RealCount(blk.hand[t]) >= 1
                    THEN LostOne(blk, Game, t)
                    ELSE hand = blk.hand /\ killed = blk.killed
    /\ TurnTaken =>
          \A p \in Players \ {last.active} :
              (last.action.kind # "Steal" \/ p # last.action.target)
                  => coins[p] = last.coins_before[p]

\* An Assassinate was executed: the target lost a card and the active player
\* paid 3 coins; and one was executed on a target with no card left.
C27_Witness ==
    /\ Executed /\ last.action.kind = "Assassinate"
    /\ LostOne(last.after_block, Game, last.action.target)
    /\ coins[last.active] = last.coins_before[last.active] - 3

C27_WitnessSpent ==
    /\ Executed /\ last.action.kind = "Assassinate"
    /\ IsEliminated(last.after_block.hand[last.action.target])
    /\ coins[last.active] = last.coins_before[last.active] - 3

C27_WitnessGains ==
    /\ Executed /\ last.action.kind = "Tax" /\ last.challenger # NoPlayer

\* C28: an executed Exchange draws the two cards on top of the deck, the
\* active player keeps two of its hand and those two, and the other two go to
\* the bottom of the deck: the deck keeps its size, the cards that were below
\* the two drawn move to the top, and the hand and the two cards at the
\* bottom are the old hand and the two cards drawn.
C28_ExchangeDraws ==
    (Executed /\ last.action.kind = "Exchange") =>
        LET a == last.active
            blk == last.after_block
            n == Len(blk.deck)
            pool == blk.hand[a] \o SubSeq(blk.deck, 1, 2)
            kept == hand[a] \o SubSeq(deck, n - 1, n)
        IN  /\ Len(deck) = n
            /\ SubSeq(deck, 1, n - 2) = SubSeq(blk.deck, 3, n)
            /\ \A c \in Card : CountSeq(kept, c) = CountSeq(pool, c)

\* C29: after every turn, whatever its outcome, the active player index is
\* (index of the player who took the turn + 1) modulo the number of players,
\* whether or not that player is eliminated; the index is always a valid
\* player index.
C29_Rotation ==
    /\ active_player \in Players
    /\ TurnTaken => active_player = (last.active + 1) % NumPlayers

\* The turn passed to a player who is eliminated, in a game of more than two
\* players; the index wrapped to 0; the turn taken was prevented.
C29_Witness ==
    /\ TurnTaken
    /\ NumPlayers > 2
    /\ IsEliminated(hand[active_player])

C29_WitnessWrap ==
    TurnTaken /\ active_player = 0 /\ last.active = NumPlayers - 1 /\ last.prevented

C29_WitnessPass ==
    TurnTaken /\ last.action = Pass /\ active_player = (last.active + 1) % NumPlayers

\* The list of legal actions enumerated for the player who took the last turn
LastActions ==
    LET a == last.active
    IN  GetAvailableActions(last.hand_before[a], last.coins_before[a],
                            perceived_hands[a], lying_cutoff[a], a, NumPlayers - 1,
                            last.eliminated)

\* C30: the legal actions of an eliminated player are exactly Pass; those of a
\* player still in the game with 10 coins or more are exactly Coup(i) for the
\* opponents i not eliminated when the turn began; so such a player's action
\* is always a Coup: its turn is a Coup in every game, select_action answers
\* with a Coup, and its turn does not end in a panic.
C30_ForcedCoup ==
    /\ TurnTaken =>
          LET a == last.active
              acts == {LastActions[i] : i \in DOMAIN LastActions}
              out == IsEliminated(last.hand_before[a])
          IN  /\ out => acts = {Pass} /\ last.action = Pass
              /\ (~out /\ last.coins_before[a] >= 10) =>
                    /\ acts = {Coup(i) : i \in Players \ ({a} \cup last.eliminated)}
                    /\ last.action.kind = "Coup"
    /\ (call.fn = "select_action" /\ call.done
          /\ ~IsEliminated(call.self.hand) /\ call.coins >= 10) =>
              call.result.kind = "Coup"
    /\ returned = Panicked =>
          ~(coins[active_player] >= 10 /\ ~IsEliminated(hand[active_player]))

\* The enumeration alone: Pass for an eliminated player, Coups only from 10
\* coins on.
C30_LegalSets ==
    TurnTaken =>
        LET a == last.active
            acts == {LastActions[i] : i \in DOMAIN LastActions}
            out == IsEliminated(last.hand_before[a])
        IN  /\ out => acts = {Pass}
            /\ (~out /\ last.coins_before[a] >= 10) =>
                  acts = {Coup(i) : i \in Players \ ({a} \cup last.eliminated)}

\* The public-pool estimate of card c on kill ledger kl exceeds cut/100:
\* 1 - ((N - k)/N)((N - 1 - k)/(N - 1)) > cut/100 with N = 15 - |kl| and
\* k = 3 - (copies of c in kl).
SelfEstimateExceeds(kl, c, cut) ==
    LET N == DeckSize - Len(kl)
        k == CopiesPerCard - CountSeq(kl, c)
    IN  100 * (N * (N - 1) - (N - k) * (N - 1 - k)) > cut * N * (N - 1)

\* C31: for an agent still in the game with fewer than 10 coins, Income and
\* ForeignAid are enumerated; for each opponent t not eliminated, Coup(t) is
\* enumerated iff coins >= 7, Steal(t) iff the hand holds Captain or the
\* self-estimate for Captain exceeds lying_cutoff, Assassinate(t) iff coins
\* >= 3 and the hand holds Assassin or its self-estimate exceeds the cutoff;
\* Tax and Exchange iff Duke, Ambassador is held or its self-estimate exceeds
\* the cutoff; nothing aimed at the agent itself or at an eliminated player
\* is enumerated, and no action is enumerated twice.
C31_Enumeration ==
    (call.fn = "select_action" /\ call.done /\ ~IsEliminated(call.self.hand)
        /\ call.coins < 10) =>
        LET me == call.self
            acts == {call.actions[i] : i \in DOMAIN call.actions}
            opp == (0..me.opponents) \ ({me.id} \cup call.eliminated)
            may(c) == Contains(me.hand, c) \/ SelfEstimateExceeds(me.killed, c, call.lying)
        IN  /\ Income \in acts /\ ForeignAid \in acts
            /\ Pass \notin acts
            /\ \A t \in opp : Coup(t) \in acts <=> call.coins >= 7
            /\ Tax \in acts <=> may(Duke)
            /\ Exchange \in acts <=> may(Ambassador)
            /\ \A t \in opp : Steal(t) \in acts <=> may(Captain)
            /\ \A t \in opp : Assassinate(t) \in acts
                                  <=> (call.coins >= 3 /\ may(Assassin))
            /\ \A x \in acts : x.target \in opp \cup {NoPlayer}
            /\ Cardinality(acts) = Len(call.actions)

\* The enumeration of an agent that holds one of the cards and may bluff
\* another, with opponents to aim at and coins for a Coup.
C31_Witness ==
    /\ call.fn = "select_action" /\ call.done
    /\ call.coins = 7
    /\ call.self.hand = <<Duke, Captain>>
    /\ call.eliminated = {}
    /\ Exchange \in {call.actions[i] : i \in DOMAIN call.actions}
    /\ Assassinate(1) \in {call.actions[i] : i \in DOMAIN call.actions}

\* C32: select_action of an agent returns one of the enumerated legal
\* actions, its discounted utility is the maximum over the enumerated
\* actions, and it is the first enumerated action with that utility.
C32_SelectsFirstMaximum ==
    (call.fn = "agent_select" /\ call.done /\ call.actions # <<>>) =>
        LET acts == call.actions
            us == call.utilities
        IN  \E i \in DOMAIN acts :
                /\ call.result = acts[i]
                /\ \A j \in DOMAIN acts : us[j] <= us[i]
                /\ \A j \in DOMAIN acts : j < i => us[j] < us[i]

\* Several enumerated actions shared the maximum utility and the chosen one
\* was neither the first nor the last of the list.
C32_Witness ==
    /\ call.fn = "agent_select" /\ call.done
    /\ \E i, j \in DOMAIN call.actions :
          /\ 1 < i /\ i < j
          /\ call.result = call.actions[i]
          /\ call.utilities[j] = call.utilities[i]

\* C33: compute_utility gives an action its weight in the utility table (0
\* for Pass), except that ForeignAid gets 0 when the agent's belief that some
\* other player holds Duke exceeds liar_cutoff and Steal(target) gets 0 when
\* its belief that the target holds Captain, or Ambassador, exceeds
\* liar_cutoff; nothing else is discounted.
C33_ComputeUtility ==
    (call.fn = "compute_utility" /\ call.done) =>
        LET me == call.self
            k == call.action.kind
            t == call.action.target
            u == call.util
            weight == CASE k = "Income" -> u.income
                        [] k = "ForeignAid" -> u.foreignaid
                        [] k = "Coup" -> u.coup
                        [] k = "Tax" -> u.tax
                        [] k = "Assassinate" -> u.assassinate
                        [] k = "Exchange" -> u.exchange
                        [] k = "Steal" -> u.steal
                        [] k = "Pass" -> 0
            feared == \E i \in (0..me.opponents) \ {me.id} :
                          Exceeds(me.table[i][Duke], call.liar)
            guarded == \/ Exceeds(me.table[t][Captain], call.liar)
                       \/ Exceeds(me.table[t][Ambassador], call.liar)
        IN  /\ (k = "ForeignAid" /\ feared) => call.result = 0
            /\ (k = "Steal" /\ guarded) => call.result = 0
            /\ ~((k = "ForeignAid" /\ feared) \/ (k = "Steal" /\ guarded)) =>
                  call.result = weight

\* A Steal was discounted for the target's Ambassador alone, by an agent that
\* holds a Captain itself.
C33_Witness ==
    /\ call.fn = "compute_utility" /\ call.done
    /\ call.action.kind = "Steal" /\ call.action.target # call.self.id
    /\ call.util.steal # 0 /\ call.result = 0
    /\ ~Exceeds(call.self.table[call.action.target][Captain], call.liar)

C33_WitnessAid ==
    /\ call.fn = "compute_utility" /\ call.done
    /\ call.action = ForeignAid /\ call.result # 0
    /\ Exceeds(call.self.table[call.self.id][Duke], call.liar)

\* The trainer has constructed a game of a generation after generation 0.
LaterGame == call.fn = "train" /\ ~call.done /\ call.gen >= 1 /\ call.game >= 1

\* C34: every generation after generation 0 has as many lineages as
\* generation 0 has games; each of its games seats at seat 0 an agent with the
\* previous survivor's cutoffs and utilities and at seats 1 to 3 mutated
\* copies of that survivor with ids 1, 2, 3; every game starts with its four
\* players at 2 coins, with no cards and no beliefs.
C34_Trainer ==
    /\ (call.fn = "train" /\ call.gen >= 1) =>
          /\ Len(call.winners) = Population
          /\ call.game <= Population
          /\ Len(call.new_winners) = call.game
    /\ (call.fn = "train" /\ call.game >= 1) =>
          \A i \in 0..3 :
              /\ call.seats[i].id = i
              /\ call.seats[i].coins = 2
              /\ call.seats[i].hand = <<NoCard, NoCard>>
              /\ call.seats[i].perceived = <<>>
    /\ LaterGame =>
          LET survivor == call.winners[call.game]
              unit == MutateSteps
          IN  /\ call.seats[0].liar = survivor.liar
              /\ call.seats[0].lying = survivor.lying
              /\ call.seats[0].utilities = survivor.utilities
              /\ \A i \in 1..3 :
                    LET ch == call.seats[i]
                    IN  /\ survivor.liar - unit <= ch.liar /\ ch.liar <= survivor.liar + unit
                        /\ survivor.lying - unit <= ch.lying
                        /\ ch.lying <= survivor.lying + unit
                        /\ \A k \in DOMAIN UtilityKinds :
                              /\ ch.utilities[k] >= survivor.utilities[k]
                              /\ ch.utilities[k] < survivor.utilities[k] + unit

\* The second game of the second later generation: its survivor was itself a
\* mutated seat of the generation before.
C34_Witness ==
    /\ LaterGame
    /\ call.gen = 2 /\ call.game = Population
    /\ call.seats[0].liar \notin {p.liar : p \in Parents}
    /\ call.seats[1] # call.seats[2]

\* C35: every player's balance is at most 12, below the 256 values of the
\* 8-bit counter: across a turn only the active player's balance grows, from
\* at most 9 coins and by at most 3.
C35_CoinsBounded ==
    /\ \A p \in Players : coins[p] >= 0 /\ coins[p] <= 12 /\ coins[p] < CoinWidth
    /\ TurnTaken =>
          \A p \in Players :
              coins[p] > last.coins_before[p] =>
                  /\ p = last.active
                  /\ last.coins_before[p] <= 9
                  /\ coins[p] - last.coins_before[p] <= 3

\* A player at 9 coins took Tax and holds 12.
C35_Witness ==
    /\ TurnTaken
    /\ last.coins_before[last.active] = 9
    /\ coins[last.active] = 12

\* C36: in every reachable state of a game at least one player is not
\* eliminated: no turn, whatever influence its challenge, the challenge of its
\* block and its execution take, eliminates every player that was left.
C36_SomeoneLeft ==
    /\ Alive # {}
    /\ TurnTaken =>
          /\ {p \in Players : ~IsEliminated(last.after_challenge.hand[p])} # {}
          /\ {p \in Players : ~IsEliminated(last.after_block.hand[p])} # {}

\* A turn took three influences (the challenge of the claim, the challenge of
\* the block, the execution); a turn eliminated two players at once; a turn
\* left a single player.
C36_Witness ==
    /\ TurnTaken
    /\ last.action.kind = "Assassinate"
    /\ last.challenger # NoPlayer /\ last.block_challenger # NoPlayer
    /\ Len(killed) = Len(last.killed_before) + 3
    /\ Cardinality(Alive) < Cardinality(Players \ last.eliminated)

C36_WitnessTwoOut ==
    TurnTaken /\ Cardinality(Alive) + 2 <= Cardinality(Players \ last.eliminated)

C36_WitnessLast ==
    TurnTaken /\ Cardinality(Alive) = 1 /\ Cardinality(Players \ last.eliminated) > 1


\* The sentinel slots of the hands hs, over all players.
SentinelSlots(hs) ==
    Cardinality({ps \in (DOMAIN hs) \X Slots : hs[ps[1]][ps[2]] = NoCard})

LedgerMatches(st) ==
    /\ \A i \in 1..Len(st.killed) : st.killed[i] # NoCard
    /\ Len(st.killed) = SentinelSlots(st.hand)

\* C37: the kill ledger holds no sentinel and is as long as the number of
\* sentinel hand slots over all players, in every state of a game and after
\* each phase of a turn: a loss of a real card adds one entry, a loss asked of a
\* player who is already eliminated adds none.
C37_LedgerMatchesHands ==
    /\ LedgerMatches(Game)
    /\ TurnTaken =>
          /\ LedgerMatches(last.after_challenge)
          /\ LedgerMatches(last.after_block)

\* an executed Assassinate or Coup whose target had been eliminated earlier in
\* the same turn: the ledger is left as the block phase left it
C37_Witness ==
    /\ Executed
    /\ last.action.kind \in {"Assassinate", "Coup"}
    /\ ~IsEliminated(last.hand_before[last.action.target])
    /\ IsEliminated(last.after_block.hand[last.action.target])
    /\ killed = last.after_block.killed
    /\ Len(killed) > Len(last.killed_before)

\* a turn with two losses of real cards, two entries
C37_WitnessTwo ==
    /\ TurnTaken
    /\ Len(killed) = Len(last.killed_before) + 2
    /\ SentinelSlots(hand) = SentinelSlots(last.hand_before) + 2

DeckHolds(st) == Len(st.deck) = DeckSize - 2 * NumPlayers

\* C38: for every number n of players dealt to, the deck holds 15 - 2n cards
\* after construction, after every phase of every turn and after every turn,
\* and that number is at least one, so the draw of a replacement card (which
\* reads the top of the deck after the revealed card was pushed) never reads an
\* empty deck.
C38_DeckSize ==
    /\ DeckHolds(Game)
    /\ Len(deck) >= 1
    /\ TurnTaken => DeckHolds(last.after_challenge) /\ DeckHolds(last.after_block)

\* a replacement drawn in the game of seven players, whose deck is one card
C38_Witness ==
    /\ TurnTaken
    /\ NumPlayers = MaxPlayers
    /\ last.challenger # NoPlayer /\ last.held
    /\ last.after_challenge.hand[last.active] # last.hand_before[last.active]

\* a replacement drawn for a blocker
C38_WitnessBlock ==
    /\ TurnTaken
    /\ last.block_challenger # NoPlayer
    /\ last.after_block.deck # last.after_challenge.deck

Targeted == TurnTaken /\ last.action.kind \in {"Coup", "Assassinate", "Steal"}

\* C39: the target of a Coup, Assassinate or Steal the active player selects is
\* a player of the game other than the active player, and not one that was
\* eliminated when the turn began.
C39_Targets ==
    Targeted =>
        /\ last.action.target \in Players
        /\ last.action.target # last.active
        /\ last.action.target \notin last.eliminated

\* a target chosen among several players while another player is eliminated
C39_Witness ==
    /\ Targeted
    /\ last.eliminated # {}
    /\ Cardinality(Players \ (last.eliminated \cup {last.active})) >= 1
    /\ NumPlayers >= 3

\* an Assassinate with an eliminated player at the table
C39_WitnessAssassinate ==
    Targeted /\ last.action.kind = "Assassinate" /\ last.eliminated # {}

\* The cards an observer with hand h cannot see: all but the ledger and the
\* real cards of its own hand.
Unseen(h, kl) == DeckSize - Len(kl) - RealCount(h)

\* C40: the private pool size N of compute_hands is the number of cards the
\* observer cannot see, 15 less the ledger less the real cards of its own hand,
\* also for an observer who has lost one or both influences; the beliefs about
\* the other players that every player stores at the start of a turn are the
\* ones of that N.
C40_PrivatePool ==
    LET K == IF TurnTaken THEN last.killed_before ELSE killed
        H == IF TurnTaken THEN last.hand_before ELSE hand
    IN  \A p \in Players :
          /\ PrivateAvailable(K) = Unseen(H[p], K)
          /\ \A o \in Players \ {p} : \A c \in RealCards :
                perceived_hands[p][o][c]
                    = Belief(Unseen(H[p], K), PrivateCount(H[p], K, c))

\* the same with every hand whole: the pool is 15 less the ledger less 2
C40_WholeHands ==
    LET K == IF TurnTaken THEN last.killed_before ELSE killed
        H == IF TurnTaken THEN last.hand_before ELSE hand
    IN  \A p \in Players :
          RealCount(H[p]) = 2 =>
            /\ PrivateAvailable(K) = Unseen(H[p], K)
            /\ \A o \in Players \ {p} : \A c \in RealCards :
                  perceived_hands[p][o][c]
                      = Belief(Unseen(H[p], K), PrivateCount(H[p], K, c))
====
